---- MODULE Spec2Model ----
(***************************************************************************)
(* A model of rbuild's workcache (src/rbuild/workcache.rs) together with   *)
(* the typed front end and freshness predicates of src/rbuild/context.rs.  *)
(*                                                                         *)
(* Strings produced by json_encode are modelled by structured values that  *)
(* list the encoded tokens in the order the encoder writes them:           *)
(*   - a WorkMap (TreeMap<name, TreeMap<kind, value>>) is the sequence of  *)
(*     its <<name, kindmap>> entries in key order, a KindMap the sequence  *)
(*     of its <<kind, value>> entries in key order;                        *)
(*   - a CallArg is the tuple <<variant, text, digest, modified>>;         *)
(*   - a Call is the sequence <<prog>> \o args;                            *)
(*   - a CachedPath is the one-element sequence of its tuple.              *)
(***************************************************************************)
EXTENDS Integers, Sequences, FiniteSets, TLC

\* ------------------------------------------------------------------ bounds
MaxContent == 2      \* file contents are 1..MaxContent; 0 is "no such file"
MaxCalls == 3        \* exec calls started over a whole run
MaxEnv == 2          \* changes the environment makes to the disk
MaxBodySteps == 1    \* discover/write steps one body takes
MaxDeclare == 1      \* declare_input calls on one Prep
MaxKeyTriples == 2   \* triples declared in the key-determinism experiment
MaxDiscoveries == 2  \* facts one body records when a group holds several

Procs == {1, 2}
Paths == {"cc", "a.c", "a.o"}
FnNames == {"Call"}
\* Each exec call is given a newly built body; the body of the n-th call
\* started returns a value of its own, if it returns.
ResultOf(n) == <<"r1", "r2", "r3", "r4", "r5">>[n]

\* ------------------------------------------------------- string ordering
\* TreeMap<~str, _> iterates its keys in byte-lexicographic order. StrOrder
\* lists every name and kind of the model in that order.
StrOrder == <<"", "call", "dst", "names", "path", "src", "value">>

StrRank(s) == CHOOSE i \in 1..Len(StrOrder) : StrOrder[i] = s

StrLt(a, b) == StrRank(a) < StrRank(b)

\* ---------------------------------------------------------------- TreeMap
TreeHas(t, k) == \E i \in 1..Len(t) : t[i][1] = k

TreeGet(t, k) == t[CHOOSE i \in 1..Len(t) : t[i][1] = k][2]

\* A plausible bug: a list that keeps insertion order instead of key order.
TreeInsertUnordered(t, k, v) ==
    IF TreeHas(t, k)
    THEN [i \in 1..Len(t) |-> IF t[i][1] = k THEN <<k, v>> ELSE t[i]]
    ELSE Append(t, <<k, v>>)

\* A plausible bug: an insertion that leaves the value of an existing key.
TreeInsertKeepFirst(t, k, v) ==
    IF TreeHas(t, k)
    THEN t
    ELSE LET n == Cardinality({i \in 1..Len(t) : StrLt(t[i][1], k)})
         IN  SubSeq(t, 1, n) \o <<<<k, v>>>> \o SubSeq(t, n + 1, Len(t))

\* TreeMap::insert: overwrite the value of an existing key, else insert the
\* entry at its place in key order.
TreeInsert(t, k, v) ==
    IF TreeHas(t, k)
    THEN [i \in 1..Len(t) |-> IF t[i][1] = k THEN <<k, v>> ELSE t[i]]
    ELSE LET n == Cardinality({i \in 1..Len(t) : StrLt(t[i][1], k)})
         IN  SubSeq(t, 1, n) \o <<<<k, v>>>> \o SubSeq(t, n + 1, Len(t))

\* ---------------------------------------------------------------- WorkMap
WorkMapNew == <<>>

insert_work_key(map, kind, name, value) ==
    IF TreeHas(map, name)
    THEN TreeInsert(map, name, TreeInsert(TreeGet(map, name), kind, value))
    ELSE TreeInsert(map, name, TreeInsert(<<>>, kind, value))

\* The facts of a map in the order the nested loops of all_fresh visit them.
RECURSIVE Flatten(_)
Flatten(map) ==
    IF map = <<>>
    THEN <<>>
    ELSE LET name == map[1][1]
             km   == map[1][2]
         IN  [i \in 1..Len(km) |-> <<name, km[i][1], km[i][2]>>]
                 \o Flatten(Tail(map))

\* ------------------------------------------------------------------- disk
Absent == [content |-> 0, modified |-> 0]

exists(d, path) == d[path].content # 0

\* std::hash::hash of the file's bytes, injective on the contents modelled.
hash(c) == (c * 37 + 11) % 101

\* digest_path is an IoResult; DigestOk tells Ok from Err.
DigestOk(d, path) == exists(d, path)

digest_path(d, path) == hash(d[path].content)

\* ------------------------------------------------- CachedPath, CallArg, Call
Str(s) == <<"Str", s, 0, 0>>

InputPath(cp) == <<"InputPath", cp.path, cp.digest, cp.modified>>

OutputPath(path) == <<"OutputPath", path, 0, 0>>

\* A plausible bug: a path that cannot be read is given the digest of nothing.
CachedPathNewAlways(d, path) == TRUE

\* CachedPath::new unwraps digest_path and stat: it fails on a missing path.
CachedPathNewOk(d, path) == DigestOk(d, path)

CachedPathNew(d, path) ==
    [path |-> path, digest |-> digest_path(d, path), modified |-> d[path].modified]

\* A plausible bug: a path whose modification time moved counts as changed.
CachedPathIsFreshByDate(d, cp) ==
    /\ exists(d, cp.path)
    /\ cp.digest = digest_path(d, cp.path)
    /\ cp.modified = d[cp.path].modified

CachedPathIsFresh(d, cp) ==
    exists(d, cp.path) /\ cp.digest = digest_path(d, cp.path)

CallArgAsCachedPath(arg) == [path |-> arg[2], digest |-> arg[3], modified |-> arg[4]]

\* A plausible bug: an output path is never looked at again.
CallArgIsFreshBlind(d, arg) ==
    CASE arg[1] = "Str"        -> TRUE
      [] arg[1] = "InputPath"  -> CachedPathIsFresh(d, CallArgAsCachedPath(arg))
      [] arg[1] = "OutputPath" -> TRUE

CallArgIsFresh(d, arg) ==
    CASE arg[1] = "Str"        -> TRUE
      [] arg[1] = "InputPath"  -> CachedPathIsFresh(d, CallArgAsCachedPath(arg))
      [] arg[1] = "OutputPath" -> exists(d, arg[2])

CallNew(d, prog) == [prog |-> InputPath(CachedPathNew(d, prog)), args |-> <<>>]

push_str(call, s) == [call EXCEPT !.args = Append(@, Str(s))]

push_input_path(d, call, path) ==
    [call EXCEPT !.args = Append(@, InputPath(CachedPathNew(d, path)))]

push_output_path(call, path) == [call EXCEPT !.args = Append(@, OutputPath(path))]

CallIsFresh(d, call) ==
    \A i \in 1..Len(call.args) : CallArgIsFresh(d, call.args[i])

\* ------------------------------------------------------- json of fact values
json_encode_call(call) == <<call.prog>> \o call.args

json_encode_cached_path(cp) == <<<<"CachedPath", cp.path, cp.digest, cp.modified>>>>

json_encode_str(s) == <<<<"Json", s, 0, 0>>>>

CallArgVariants == {"Str", "InputPath", "OutputPath"}

\* json_decode::<Call> succeeds on the encoding of a Call only.
json_decode_call_ok(v) ==
    /\ Len(v) >= 1
    /\ \A i \in 1..Len(v) : v[i][1] \in CallArgVariants

json_decode_call(v) == [prog |-> Head(v), args |-> Tail(v)]

\* ------------------------------------------------ what callers build and say
\* The builders make a Call from a program and a list of pushes
\* (builders/ar.rs, c/gcc.rs): a recipe is that list.
Recipes ==
    { <<<<"in", "a.c">>>>,
      <<<<"out", "a.o">>>> }

RecipeOk(d, prog, recipe) ==
    /\ CachedPathNewOk(d, prog)
    /\ \A i \in 1..Len(recipe) : recipe[i][1] = "in" => CachedPathNewOk(d, recipe[i][2])

RECURSIVE ApplyRecipe(_, _, _)
ApplyRecipe(d, call, recipe) ==
    IF recipe = <<>>
    THEN call
    ELSE LET op   == Head(recipe)
             next == CASE op[1] = "str" -> push_str(call, op[2])
                       [] op[1] = "in"  -> push_input_path(d, call, op[2])
                       [] op[1] = "out" -> push_output_path(call, op[2])
         IN  ApplyRecipe(d, next, Tail(recipe))

BuildCall(d, recipe) == ApplyRecipe(d, CallNew(d, "cc"), recipe)

\* What a body may record: [dir, kind, name, src], src a path (kind "path",
\* discover_input_path / discover_output_path) or a recipe (kind "call",
\* the generic discover_input / discover_output with a Call value).
Discoveries ==
    { [dir |-> "out", kind |-> "path", name |-> "dst", path |-> "a.o", recipe |-> <<>>],
      [dir |-> "in",  kind |-> "call", name |-> "src", path |-> "",
       recipe |-> <<<<"in", "a.c">>>>],
      [dir |-> "out", kind |-> "call", name |-> "dst", path |-> "",
       recipe |-> <<<<"out", "a.o">>>>] }

DiscoveryOk(d, x) ==
    IF x.kind = "path" THEN CachedPathNewOk(d, x.path) ELSE RecipeOk(d, "cc", x.recipe)

DiscoveryValue(d, x) ==
    IF x.kind = "path"
    THEN json_encode_cached_path(CachedPathNew(d, x.path))
    ELSE json_encode_call(BuildCall(d, x.recipe))

\* ------------------------------------------------------ freshness registry
\* A plausible bug: the registrations commented out in Context::new are
\* made as well.
ContextFreshnessAll ==
    [k \in {"call", "path", "value"} |->
        IF k = "call" THEN "call_is_fresh"
        ELSE IF k = "path" THEN "path_is_fresh" ELSE "value_is_fresh"]

\* context::Context::new registers one kind, "call".
ContextFreshness == [k \in {"call"} |-> "call_is_fresh"]

\* fn call_is_fresh(_name, value): decode the Call (unwrap) and ask it.
call_is_fresh(d, name, value) ==
    IF ~json_decode_call_ok(value)
    THEN "fail"
    ELSE IF CallIsFresh(d, json_decode_call(value)) THEN "fresh" ELSE "stale"

\* A plausible bug: a kind with no freshness function counts as not fresh.
is_fresh_or_stale(fr, d, kind, name, value) ==
    IF kind \notin DOMAIN fr
    THEN "stale"
    ELSE call_is_fresh(d, name, value)

\* Prep::is_fresh: "fresh", "stale", or "fail" (the task fails) when the
\* kind has no freshness function.
is_fresh(fr, d, kind, name, value) ==
    IF kind \notin DOMAIN fr
    THEN "fail"
    ELSE call_is_fresh(d, name, value)

\* Prep::all_fresh over facts i..: the verdict and the number of facts on
\* which is_fresh was called.
RECURSIVE all_fresh_from(_, _, _, _)
all_fresh_from(fr, d, facts, i) ==
    IF i > Len(facts)
    THEN [res |-> "fresh", n |-> Len(facts)]
    ELSE LET r == is_fresh(fr, d, facts[i][2], facts[i][1], facts[i][3])
         IN  IF r = "fresh"
             THEN all_fresh_from(fr, d, facts, i + 1)
             ELSE [res |-> r, n |-> i]

\* A plausible bug: every fact of the map is evaluated, none is skipped
\* after a stale one.
all_fresh_every(fr, d, map) ==
    LET facts == Flatten(map)
        rs == {is_fresh(fr, d, facts[i][2], facts[i][1], facts[i][3]) :
                  i \in 1..Len(facts)}
    IN  [res |-> IF "fail" \in rs THEN "fail"
                 ELSE IF "stale" \in rs THEN "stale" ELSE "fresh",
         n |-> Len(facts)]

all_fresh(fr, d, map) == all_fresh_from(fr, d, Flatten(map), 1)

\* --------------------------------------------------------------- Database
EmptyDb == [k \in {} |-> <<>>]

None == [some |-> FALSE, disc_in |-> <<>>, disc_out |-> <<>>, res |-> ""]

Some(di, do, r) == [some |-> TRUE, disc_in |-> di, disc_out |-> do, res |-> r]

\* A plausible bug: records are keyed by the function name alone.
DbKeyByName(fn_name, declared_inputs) == <<fn_name, <<>>>>

\* A plausible bug: the key leaves the function name out.
DbKeyNoName(fn_name, declared_inputs) == <<"", declared_inputs>>

\* json_encode(&(fn_name, declared_inputs))
DbKey(fn_name, declared_inputs) == <<fn_name, declared_inputs>>

\* json_encode(&(discovered_inputs, discovered_outputs, result))
DbVal(di, do, r) == <<di, do, json_encode_str(r)>>

\* json_decode of a stored record
DbDecode(v) == Some(v[1], v[2], v[3][1][2])

\* A plausible bug: a key that is not there reads as an empty record.
prepareDefault(db, fn_name, declared_inputs) ==
    LET k == DbKey(fn_name, declared_inputs)
    IN  IF k \in DOMAIN db THEN DbDecode(db[k]) ELSE Some(WorkMapNew, WorkMapNew, "")

prepare(db, fn_name, declared_inputs) ==
    LET k == DbKey(fn_name, declared_inputs)
    IN  IF k \in DOMAIN db THEN DbDecode(db[k]) ELSE None

\* The map after Database::cache (which also sets db_dirty).
cache_keep_first(db, fn_name, declared_inputs, di, do, r) ==
    LET k == DbKey(fn_name, declared_inputs)
    IN  IF k \in DOMAIN db THEN db
        ELSE [x \in DOMAIN db \cup {k} |-> IF x = k THEN DbVal(di, do, r) ELSE db[x]]

\* A plausible bug: storing a record replaces the whole map by it.
cache_alone(db, fn_name, declared_inputs, di, do, r) ==
    LET k == DbKey(fn_name, declared_inputs)
    IN  [x \in {k} |-> DbVal(di, do, r)]

\* A plausible bug: the facts of the record already stored under the key are
\* carried over into the new record.
RECURSIVE WorkMapMerge(_, _)
WorkMapMerge(map, facts) ==
    IF facts = <<>>
    THEN map
    ELSE WorkMapMerge(insert_work_key(map, facts[1][2], facts[1][1], facts[1][3]),
                      Tail(facts))

cache_merge(db, fn_name, declared_inputs, di, do, r) ==
    LET k == DbKey(fn_name, declared_inputs)
        mi == IF k \in DOMAIN db THEN WorkMapMerge(db[k][1], Flatten(di)) ELSE di
        mo == IF k \in DOMAIN db THEN WorkMapMerge(db[k][2], Flatten(do)) ELSE do
    IN  [x \in DOMAIN db \cup {k} |-> IF x = k THEN DbVal(mi, mo, r) ELSE db[x]]

\* A plausible bug: storing a record drops the records the same function
\* has under other declared inputs.
cache_evict(db, fn_name, declared_inputs, di, do, r) ==
    LET k == DbKey(fn_name, declared_inputs)
        keep == {x \in DOMAIN db : x[1] # fn_name}
    IN  [x \in keep \cup {k} |-> IF x = k THEN DbVal(di, do, r) ELSE db[x]]

cache(db, fn_name, declared_inputs, di, do, r) ==
    LET k == DbKey(fn_name, declared_inputs)
    IN  [x \in DOMAIN db \cup {k} |-> IF x = k THEN DbVal(di, do, r) ELSE db[x]]

\* A plausible bug: Database::cache leaves the dirty flag as it was.
cache_dirty_kept(dirty) == dirty

\* self.db_dirty = true, the last statement of Database::cache.
cache_dirty(dirty) == TRUE

\* The store file holds a json object: the set of its <<key, string>>
\* members.  to_json writes one member per entry of the TreeMap; decoding
\* inserts every member into a new TreeMap.  A file may also be there and
\* refuse to open ("unreadable") or hold bytes that are no json ("garbage").
NoStore == [present |-> FALSE, json |-> {}, form |-> "json"]

to_json(db) == {<<k, db[k]>> : k \in DOMAIN db}

from_json(obj) ==
    [k \in {m[1] : m \in obj} |-> (CHOOSE m \in obj : m[1] = k)[2]]

\* Database::save: File::create(db_filename) and the json written to it.
save(db) == [present |-> TRUE, json |-> to_json(db), form |-> "json"]

\* A plausible bug: the file is opened and parsed, and the result dropped.
load_nothing(st) == EmptyDb

\* Database::load: the db_cache decoded from the file.
load(st) == from_json(st.json)

\* Database::new: an empty map, loaded from the store if the file exists.
DatabaseNew(st) == IF st.present THEN load(st) ELSE EmptyDb

\* How Database::load ends on a Database whose dirty flag is `dirty`: its
\* two assertions, File::open, json::from_reader, then the decoding.
load_outcome(dirty, st) ==
    IF dirty \/ ~st.present THEN "assert"
    ELSE IF st.form = "unreadable" THEN "open"
    ELSE IF st.form = "garbage" THEN "parse"
    ELSE "ok"

\* A plausible bug: a store that cannot be read counts as an empty one.
DatabaseNewLenient(st) == "ok"

\* How Database::new ends: it makes the Database with db_dirty: false and
\* calls load only if the file exists.
DatabaseNewOutcome(st) == IF st.present THEN load_outcome(FALSE, st) ELSE "ok"

\* A plausible bug: the destructor saves whether or not the map is dirty.
drop_always(db, dirty, st) == save(db)

\* Drop for Database: the store file after the destructor ran.
drop(db, dirty, st) == IF dirty THEN save(db) ELSE st

\* ------------------------------------------------------------------ state
VARIABLES
    disk,        \* path -> [content, modified]; content 0: no such file
    envSteps,    \* changes the environment has made to the disk
    store,       \* the file at db_filename
    open,        \* a Context (and its Database) is alive
    db_cache,    \* Database.db_cache
    db_dirty,    \* Database.db_dirty
    freshness,   \* Context.freshness: kind -> freshness function
    calls,       \* exec calls started so far
    pc,          \* where each caller is in prep / exec / unwrap
    prep,        \* each caller's Prep: fn_name, declared_inputs
    cached,      \* each caller's `cached`, the result of db.prepare
    task,        \* each caller's spawned body: its state, its Exec, its value
    ret,         \* what exec gave each caller: a value or a failure
    seen,        \* history: the call that ended just before each caller's lookup
    lastCommit,  \* history: fn_name and declared inputs, if the last call to
                 \*          end committed and no lookup came since
    committed,   \* history: every <<fn_name, declared_inputs>> committed
    lastFail,    \* history: the same, if the last call to end had its body fail
    lock,        \* the RWArc around the Database: who reads, who writes
    ctx,         \* each caller's Context: the Database its db field points to
    nested,      \* the caller whose body makes this caller's call, or 0
    written      \* history: every <<key, record>> a commit has stored

vars == <<disk, envSteps, store, open, db_cache, db_dirty, freshness, calls,
          pc, prep, cached, task, ret, seen, lastCommit, committed, lastFail,
          lock, ctx, nested, written>>

dbvars == <<db_cache, db_dirty, store, open, freshness>>

histvars == <<lastCommit, committed, lastFail, written>>

concvars == <<lock, ctx, nested>>

\* ------------------------------------------------------------------ RWArc
\* RWArc<Database>: any number of readers or one writer.
Unlocked == [readers |-> {}, writer |-> 0]

can_read(l) == l.writer = 0

can_write_over_readers(l) == l.writer = 0

can_write(l) == l.writer = 0 /\ l.readers = {}

read_lock(l, p) == [l EXCEPT !.readers = @ \cup {p}]

\* A plausible bug: the read access is kept after the closure returned.
read_unlock_never(l, p) == l

read_unlock(l, p) == [l EXCEPT !.readers = @ \ {p}]

write_lock(l, p) == [l EXCEPT !.writer = p]

write_unlock(l, p) == [l EXCEPT !.writer = 0]

\* ---------------------------------------------------------------- Context
\* A Context value: db is the Database its RWArc points to (0: no Context).
TheDb == 1

\* let cfg = TreeMap::new(): the cfg map context::Context::new passes on.
ContextCfg == <<>>

NoContext == [db |-> 0, cfg |-> <<>>]

\* Context::new_with_freshness: RWArc::new(db) around the new Database,
\* Arc::new(cfg) around the cfg map.
ContextNew == [db |-> TheDb, cfg |-> ContextCfg]

\* A plausible bug: a clone gets a Database of its own.
context_copy(c) == [db |-> c.db + 1, cfg |-> c.cfg]

\* #[deriving(Clone)] on Context: RWArc::clone, the same Database, and
\* Arc::clone, the same cfg map.
context_clone(c) == [db |-> c.db, cfg |-> c.cfg]

Live(p) == ctx[p] # NoContext

\* said (history): the <<kind, name, value>> triples declared, in order.
NoPrep == [fn_name |-> "", declared_inputs |-> WorkMapNew, ndecl |-> 0, n |-> 0,
           said |-> <<>>]

NoExec == [discovered_inputs |-> WorkMapNew, discovered_outputs |-> WorkMapNew]

NoTask == [st |-> "none", exe |-> NoExec, v |-> "", steps |-> 0]

NoRet == [kind |-> "none", v |-> ""]

NoCommit == [some |-> FALSE, fn_name |-> "", declared_inputs |-> WorkMapNew]

NoSeen == [afterFail |-> FALSE, prev |-> NoCommit]

PairOf(p) == <<prep[p].fn_name, prep[p].declared_inputs>>

\* The <<key, record>> pair the commit of caller p's call stores.
WrittenBy(p) ==
    <<DbKey(prep[p].fn_name, prep[p].declared_inputs),
      Some(task[p].exe.discovered_inputs, task[p].exe.discovered_outputs, task[p].v)>>

CommitOf(p) ==
    [some |-> TRUE, fn_name |-> prep[p].fn_name,
     declared_inputs |-> prep[p].declared_inputs]

Init ==
    /\ disk = [path \in Paths |->
                 [content |-> 1, modified |-> 1]]
    /\ envSteps = 0
    /\ store = NoStore
    /\ open = TRUE
    /\ db_cache = EmptyDb
    /\ db_dirty = FALSE
    /\ freshness = ContextFreshness
    /\ calls = 0
    /\ pc = [p \in Procs |-> "idle"]
    /\ prep = [p \in Procs |-> NoPrep]
    /\ cached = [p \in Procs |-> None]
    /\ task = [p \in Procs |-> NoTask]
    /\ ret = [p \in Procs |-> NoRet]
    /\ seen = [p \in Procs |-> NoSeen]
    /\ lastCommit = NoCommit
    /\ committed = {}
    /\ lastFail = NoCommit
    /\ lock = Unlocked
    /\ ctx = [p \in Procs |-> IF p = 1 THEN ContextNew ELSE NoContext]
    /\ nested = [p \in Procs |-> 0]
    /\ written = {}

\* ------------------------------------------------------------ environment
EnvWrite(path, c, t) ==
    /\ envSteps < MaxEnv
    /\ disk[path] # [content |-> c, modified |-> t]
    /\ disk' = [disk EXCEPT ![path] = [content |-> c, modified |-> t]]
    /\ envSteps' = envSteps + 1
    /\ UNCHANGED <<concvars, dbvars, calls, pc, prep, cached, task, ret, seen, histvars>>

EnvDelete(path) ==
    /\ envSteps < MaxEnv
    /\ exists(disk, path)
    /\ disk' = [disk EXCEPT ![path] = Absent]
    /\ envSteps' = envSteps + 1
    /\ UNCHANGED <<concvars, dbvars, calls, pc, prep, cached, task, ret, seen, histvars>>

\* The environment damages the store file, or removes it.
StoreForms == {"garbage", "unreadable", "removed"}

EnvStore(form) ==
    /\ envSteps < MaxEnv
    /\ store.present
    /\ store.form # form
    /\ store' = IF form = "removed" THEN NoStore
                ELSE [present |-> TRUE, json |-> {}, form |-> form]
    /\ envSteps' = envSteps + 1
    /\ UNCHANGED <<concvars, disk, db_cache, db_dirty, open, freshness, calls, pc, prep,
                   cached, task, ret, seen, histvars>>

\* ------------------------------------------------ Context and Database life
\* Database::new: load the store if there is one; Context::new.
Open ==
    /\ ~open
    /\ pc[1] = "idle"
    /\ DatabaseNewOutcome(store) = "ok"
    /\ open' = TRUE
    /\ db_cache' = DatabaseNew(store)
    /\ db_dirty' = FALSE
    /\ freshness' = ContextFreshness
    /\ ctx' = [ctx EXCEPT ![1] = ContextNew]
    /\ UNCHANGED <<lock, nested, disk, envSteps, store, calls, pc, prep, cached, task, ret, seen,
                   histvars>>

\* Database::new fails in load: the constructing task fails and there is
\* no Database.
OpenFail ==
    /\ ~open
    /\ pc[1] = "idle"
    /\ DatabaseNewOutcome(store) # "ok"
    /\ pc' = [pc EXCEPT ![1] = "failed"]
    /\ ret' = [ret EXCEPT ![1] = [kind |-> "failure",
                                  v |-> DatabaseNewOutcome(store)]]
    /\ UNCHANGED <<concvars, disk, envSteps, dbvars, calls, prep, cached, task, seen,
                   histvars>>

\* The last clone of the Context goes away: Drop for Database.
Teardown ==
    /\ open
    /\ \A p \in Procs : pc[p] = "idle"
    /\ \E p \in Procs : Live(p) /\ \A q \in Procs \ {p} : ~Live(q)
    /\ ctx' = [p \in Procs |-> NoContext]
    /\ store' = drop(db_cache, db_dirty, store)
    /\ open' = FALSE
    /\ db_cache' = EmptyDb
    /\ db_dirty' = FALSE
    /\ UNCHANGED <<lock, nested, disk, envSteps, freshness, calls, pc, prep, cached, task, ret, seen,
                   histvars>>

\* cx.clone(): caller q is handed a clone of caller p's Context.
Clone(p, q) ==
    /\ Live(p)
    /\ ~Live(q)
    /\ ctx' = [ctx EXCEPT ![q] = context_clone(ctx[p])]
    /\ UNCHANGED <<lock, nested, disk, envSteps, dbvars, calls, pc, prep, cached, task,
                   ret, seen, histvars>>

\* A clone that is not the last one goes away: the Database stays.
CloneDrop(p) ==
    /\ Live(p)
    /\ pc[p] = "idle"
    /\ \E q \in Procs \ {p} : Live(q)
    /\ \A q \in Procs : nested[q] # p
    /\ ctx' = [ctx EXCEPT ![p] = NoContext]
    /\ UNCHANGED <<lock, nested, disk, envSteps, dbvars, calls, pc, prep, cached, task,
                   ret, seen, histvars>>

\* ------------------------------------------------------------------- Prep
\* Context::prep
PrepNew(p, fn) ==
    /\ open
    /\ Live(p)
    /\ nested[p] = 0
    /\ pc[p] = "idle"
    /\ calls < MaxCalls
    /\ calls' = calls + 1
    /\ pc' = [pc EXCEPT ![p] = "prep"]
    /\ prep' = [prep EXCEPT ![p] = [fn_name |-> fn, declared_inputs |-> WorkMapNew,
                                    ndecl |-> 0, n |-> calls + 1, said |-> <<>>]]
    /\ UNCHANGED <<concvars, disk, envSteps, dbvars, cached, task, ret, seen, histvars>>

\* Prep::declare_input
declare_input(pr, kind, name, value) ==
    [pr EXCEPT !.declared_inputs = insert_work_key(@, kind, name, value),
               !.ndecl = @ + 1,
               !.said = Append(@, <<kind, name, value>>)]

\* context::Prep::declare_call on a Call the caller built from the disk
DeclareCall(p, recipe) ==
    /\ pc[p] = "prep"
    /\ prep[p].ndecl < MaxDeclare
    /\ RecipeOk(disk, "cc", recipe)
    /\ prep' = [prep EXCEPT ![p] =
                  declare_input(@, "call", "", json_encode_call(BuildCall(disk, recipe)))]
    /\ UNCHANGED <<concvars, disk, envSteps, dbvars, calls, pc, cached, task, ret, seen, histvars>>

\* CachedPath::new unwraps: a path that cannot be read fails the declarer.
DeclareFail(p, recipe) ==
    /\ pc[p] = "prep"
    /\ prep[p].ndecl < MaxDeclare
    /\ ~RecipeOk(disk, "cc", recipe)
    /\ pc' = [pc EXCEPT ![p] = "failed"]
    /\ ret' = [ret EXCEPT ![p] = [kind |-> "failure", v |-> "declare"]]
    /\ UNCHANGED <<concvars, disk, envSteps, dbvars, calls, prep, cached, task, seen, histvars>>

\* context::Prep::declare_input("value", "names", &names), as find_program
DeclareValue(p) ==
    /\ pc[p] = "prep"
    /\ prep[p].ndecl < MaxDeclare
    /\ prep' = [prep EXCEPT ![p] =
                  declare_input(@, "value", "names", json_encode_str("ar"))]
    /\ UNCHANGED <<concvars, disk, envSteps, dbvars, calls, pc, cached, task, ret, seen, histvars>>

\* The generic context::Prep::declare_input(kind, name, &value), the value
\* a Call: any kind and name may be given, and given again.
KeyTriples ==
    { [kind |-> "call",  name |-> "",      recipe |-> <<<<"in", "a.c">>>>],
      [kind |-> "call",  name |-> "",      recipe |-> <<<<"out", "a.o">>>>],
      [kind |-> "call",  name |-> "names", recipe |-> <<<<"in", "a.c">>>>],
      [kind |-> "value", name |-> "",      recipe |-> <<<<"in", "a.c">>>>] }

DeclareTriple(p, x) ==
    /\ pc[p] = "prep"
    /\ prep[p].ndecl < MaxKeyTriples
    /\ RecipeOk(disk, "cc", x.recipe)
    /\ prep' = [prep EXCEPT ![p] =
                  declare_input(@, x.kind, x.name,
                                json_encode_call(BuildCall(disk, x.recipe)))]
    /\ UNCHANGED <<concvars, disk, envSteps, dbvars, calls, pc, cached, task, ret, seen, histvars>>

\* ------------------------------------------------------------ Prep::exec
\* The read of exec_work: db.read(|db| db.prepare(fn_name, declared_inputs)).
ExecLookup(p) ==
    /\ pc[p] = "prep"
    /\ can_read(lock)
    /\ pc' = [pc EXCEPT ![p] = "lookedup"]
    /\ cached' = [cached EXCEPT ![p] =
                    prepare(db_cache, prep[p].fn_name, prep[p].declared_inputs)]
    /\ seen' = [seen EXCEPT ![p] = [afterFail |-> lastFail = CommitOf(p),
                                    prev |-> lastCommit]]
    /\ lastFail' = NoCommit
    /\ lastCommit' = NoCommit
    /\ UNCHANGED <<concvars, disk, envSteps, dbvars, calls, prep, task, ret, committed, written>>

\* A plausible bug: the stored discovered outputs are not checked.
DecisionNoOutputs(fr, d, declared_inputs, c) ==
    IF ~c.some
    THEN "miss"
    ELSE LET a == all_fresh(fr, d, declared_inputs)
         IN  IF a.res # "fresh"
             THEN (IF a.res = "fail" THEN "fail" ELSE "miss")
             ELSE LET b == all_fresh(fr, d, c.disc_in)
                  IN  IF b.res # "fresh"
                      THEN (IF b.res = "fail" THEN "fail" ELSE "miss")
                      ELSE "hit"

\* A plausible bug: the declared inputs are judged before the record is
\* looked at, so also when there is none.
DecisionJudgesFirst(fr, d, declared_inputs, c) ==
    LET a == all_fresh(fr, d, declared_inputs)
    IN  IF a.res = "fail" THEN "fail"
        ELSE IF ~c.some \/ a.res = "stale" THEN "miss"
        ELSE LET b == all_fresh(fr, d, c.disc_in)
             IN  IF b.res # "fresh"
                 THEN (IF b.res = "fail" THEN "fail" ELSE "miss")
                 ELSE LET e == all_fresh(fr, d, c.disc_out)
                      IN  IF e.res # "fresh"
                          THEN (IF e.res = "fail" THEN "fail" ELSE "miss")
                          ELSE "hit"

\* A plausible bug: the stored result is never used, the body runs on
\* every call.
DecisionNeverHit(fr, d, declared_inputs, c) ==
    IF ~c.some
    THEN "miss"
    ELSE LET a == all_fresh(fr, d, declared_inputs)
             b == all_fresh(fr, d, c.disc_in)
             e == all_fresh(fr, d, c.disc_out)
         IN  IF "fail" \in {a.res, b.res, e.res} THEN "fail" ELSE "miss"

\* The match on `cached` in exec_work: "hit" (return Work::from_value(res)),
\* "miss" (fall through to the spawn) or "fail" (is_fresh failed the task).
\* The three all_fresh calls are joined by &&, left to right.
Decision(fr, d, declared_inputs, c) ==
    IF ~c.some
    THEN "miss"
    ELSE LET a == all_fresh(fr, d, declared_inputs)
         IN  IF a.res # "fresh"
             THEN (IF a.res = "fail" THEN "fail" ELSE "miss")
             ELSE LET b == all_fresh(fr, d, c.disc_in)
                  IN  IF b.res # "fresh"
                      THEN (IF b.res = "fail" THEN "fail" ELSE "miss")
                      ELSE LET e == all_fresh(fr, d, c.disc_out)
                           IN  IF e.res # "fresh"
                               THEN (IF e.res = "fail" THEN "fail" ELSE "miss")
                               ELSE "hit"

DecisionOf(p) == Decision(freshness, disk, prep[p].declared_inputs, cached[p])

\* A plausible bug: a hit hands back an empty value instead of the stored one.
HitValueEmpty(c) == ""

\* Work::from_value(res), then Work::unwrap: WorkValue(v) => v.
HitValue(c) == c.res

\* A plausible bug: a hit stores the record again, with the discoveries of an
\* Exec that never ran.
HitMapRestore(db, pr, c) ==
    cache(db, pr.fn_name, pr.declared_inputs, WorkMapNew, WorkMapNew, c.res)

\* The database map after the hit arm: it returns before any db.write.
HitMap(db, pr, c) == db

ExecHit(p) ==
    /\ pc[p] = "lookedup"
    /\ DecisionOf(p) = "hit"
    /\ pc' = [pc EXCEPT ![p] = "done"]
    /\ ret' = [ret EXCEPT ![p] = [kind |-> "value", v |-> HitValue(cached[p])]]
    /\ db_cache' = HitMap(db_cache, prep[p], cached[p])
    /\ UNCHANGED <<concvars, disk, envSteps, store, open, db_dirty, freshness, calls, prep, cached,
                   task, seen, histvars>>

\* spawn(proc() { let mut exe = Exec { .. }; ... }); Work::from_task(self, port)
ExecMiss(p) ==
    /\ pc[p] = "lookedup"
    /\ DecisionOf(p) = "miss"
    /\ pc' = [pc EXCEPT ![p] = "waiting"]
    /\ task' = [task EXCEPT ![p] = [st |-> "running", exe |-> NoExec, v |-> "",
                                    steps |-> 0]]
    /\ UNCHANGED <<concvars, disk, envSteps, dbvars, calls, prep, cached, ret, seen, histvars>>

\* fail!("missing freshness-function for '{}'", kind) in the caller's task
ExecFreshnessFail(p) ==
    /\ pc[p] = "lookedup"
    /\ DecisionOf(p) = "fail"
    /\ pc' = [pc EXCEPT ![p] = "failed"]
    /\ ret' = [ret EXCEPT ![p] = [kind |-> "failure", v |-> "freshness"]]
    /\ UNCHANGED <<concvars, disk, envSteps, dbvars, calls, prep, cached, task, seen, histvars>>

\* ------------------------------------------------------- the spawned body
\* The body of p's call is running, and not itself inside a nested exec.
Running(p) ==
    /\ pc[p] = "waiting"
    /\ task[p].st = "running"
    /\ \A q \in Procs : nested[q] # p

\* Exec::discover_input / Exec::discover_output
discover(exe, x, value) ==
    IF x.dir = "in"
    THEN [exe EXCEPT !.discovered_inputs =
              insert_work_key(@, x.kind, x.name, value)]
    ELSE [exe EXCEPT !.discovered_outputs =
              insert_work_key(@, x.kind, x.name, value)]

BodyDiscover(p, x) ==
    /\ Running(p)
    /\ task[p].steps < MaxBodySteps
    /\ DiscoveryOk(disk, x)
    /\ task' = [task EXCEPT ![p].exe = discover(@, x, DiscoveryValue(disk, x)),
                            ![p].steps = @ + 1]
    /\ UNCHANGED <<concvars, disk, envSteps, dbvars, calls, pc, prep, cached, ret, seen, histvars>>

\* A body that records several facts: discover_input / discover_output
\* called up to MaxDiscoveries times before the body returns.
BodyDiscoverSeveral(p, x) ==
    /\ Running(p)
    /\ task[p].steps < MaxDiscoveries
    /\ DiscoveryOk(disk, x)
    /\ task' = [task EXCEPT ![p].exe = discover(@, x, DiscoveryValue(disk, x)),
                            ![p].steps = @ + 1]
    /\ UNCHANGED <<concvars, disk, envSteps, dbvars, calls, pc, prep, cached, ret, seen, histvars>>

\* The body's external effect: the command writes its output file.
BodyWrite(p, path, c) ==
    /\ Running(p)
    /\ task[p].steps < MaxBodySteps
    /\ disk[path].content # c
    /\ disk' = [disk EXCEPT ![path] = [content |-> c, modified |-> 1]]
    /\ task' = [task EXCEPT ![p].steps = @ + 1]
    /\ UNCHANGED <<concvars, envSteps, dbvars, calls, pc, prep, cached, ret, seen, histvars>>

\* let v = blk(&mut exe); chan.send((exe, v));
BodyReturn(p) ==
    /\ Running(p)
    /\ task' = [task EXCEPT ![p].st = "sent", ![p].v = ResultOf(prep[p].n)]
    /\ UNCHANGED <<concvars, disk, envSteps, dbvars, calls, pc, prep, cached, ret, seen, histvars>>

\* The body fails (fail!("command failed"), an unwrap): the task unwinds
\* and its Chan is dropped with nothing sent.
BodyFail(p) ==
    /\ Running(p)
    /\ task' = [task EXCEPT ![p].st = "failed"]
    /\ UNCHANGED <<concvars, disk, envSteps, dbvars, calls, pc, prep, cached, ret, seen, histvars>>

\* ----------------------------------------------------------- Work::unwrap
\* A plausible bug: recv on a channel whose sender is gone blocks for ever.
\* A plausible bug: the body's message never reaches the blocked caller.
PortRecvDeaf(t) == IF t.st = "failed" THEN "hung_up" ELSE "block"

\* A plausible bug: recv does not wait for the body's message.
PortRecvEarly(t) == IF t.st = "failed" THEN "hung_up" ELSE "message"

PortRecvBlocks(t) == IF t.st = "sent" THEN "message" ELSE "block"

\* port.recv(): the message, a failure when the sender hung up without
\* sending, or blocked while the body runs.
PortRecv(t) ==
    CASE t.st = "sent"   -> "message"
      [] t.st = "failed" -> "hung_up"
      [] OTHER           -> "block"

\* A plausible bug: the record is stored with none of the discovered outputs.
CommitMapNoOutputs(db, pr, t) ==
    cache(db, pr.fn_name, pr.declared_inputs, t.exe.discovered_inputs, WorkMapNew, t.v)

\* prep.ctxt.db.write(|db| db.cache(fn_name, declared, disc_in, disc_out, &v))
CommitMap(db, pr, t) ==
    cache(db, pr.fn_name, pr.declared_inputs,
          t.exe.discovered_inputs, t.exe.discovered_outputs, t.v)

UnwrapCommit(p) ==
    /\ pc[p] = "waiting"
    /\ PortRecv(task[p]) = "message"
    /\ can_write(lock)
    /\ db_cache' = CommitMap(db_cache, prep[p], task[p])
    /\ db_dirty' = cache_dirty(db_dirty)
    /\ pc' = [pc EXCEPT ![p] = "committed"]
    /\ lastCommit' = CommitOf(p)
    /\ committed' = committed \cup {PairOf(p)}
    /\ written' = written \cup {WrittenBy(p)}
    /\ lastFail' = NoCommit
    /\ UNCHANGED <<concvars, disk, envSteps, store, open, freshness, calls, prep, cached, task,
                   ret, seen>>

\* the `v` that ends unwrap's WorkFromTask arm
UnwrapReturn(p) ==
    /\ pc[p] = "committed"
    /\ pc' = [pc EXCEPT ![p] = "done"]
    /\ ret' = [ret EXCEPT ![p] = [kind |-> "value", v |-> task[p].v]]
    /\ UNCHANGED <<concvars, disk, envSteps, dbvars, calls, prep, cached, task, seen, histvars>>

\* A plausible bug: the failed body's partial Exec is stored all the same.
FailureMapPartial(db, pr, t) ==
    cache(db, pr.fn_name, pr.declared_inputs,
          t.exe.discovered_inputs, t.exe.discovered_outputs, "")

\* A plausible bug: a failed body leaves an empty record under the key.
FailureMapEmptyRecord(db, pr, t) ==
    cache(db, pr.fn_name, pr.declared_inputs, WorkMapNew, WorkMapNew, "")

\* A plausible bug: a failed body throws the records of the session away.
FailureMapCleared(db, pr, t) == EmptyDb

\* The database map after unwrap met a failed body: nothing is written.
FailureMap(db, pr, t) == db

\* port.recv() fails the caller: the body's failure reaches exec's caller.
UnwrapFail(p) ==
    /\ pc[p] = "waiting"
    /\ PortRecv(task[p]) = "hung_up"
    /\ db_cache' = FailureMap(db_cache, prep[p], task[p])
    /\ pc' = [pc EXCEPT ![p] = "failed"]
    /\ ret' = [ret EXCEPT ![p] = [kind |-> "failure", v |-> "body"]]
    /\ lastFail' = CommitOf(p)
    /\ lastCommit' = NoCommit
    /\ UNCHANGED <<concvars, disk, envSteps, store, open, db_dirty, freshness, calls, prep, cached,
                   task, seen, committed, written>>

\* ------------------------------------------- the same, lock step by lock step
\* self.ctxt.db.read(|db| ...): the read access is taken ...
ReadLock(p) ==
    /\ pc[p] = "prep"
    /\ can_read(lock)
    /\ lock' = read_lock(lock, p)
    /\ pc' = [pc EXCEPT ![p] = "reading"]
    /\ UNCHANGED <<ctx, nested, disk, envSteps, dbvars, calls, prep, cached, task, ret,
                   seen, histvars>>

\* ... db.prepare(fn_name, declared_inputs) runs, and the access is given up.
ReadPrepare(p) ==
    /\ pc[p] = "reading"
    /\ pc' = [pc EXCEPT ![p] = "lookedup"]
    /\ cached' = [cached EXCEPT ![p] =
                    prepare(db_cache, prep[p].fn_name, prep[p].declared_inputs)]
    /\ lock' = read_unlock(lock, p)
    /\ seen' = [seen EXCEPT ![p] = [afterFail |-> lastFail = CommitOf(p),
                                    prev |-> lastCommit]]
    /\ lastFail' = NoCommit
    /\ lastCommit' = NoCommit
    /\ UNCHANGED <<ctx, nested, disk, envSteps, dbvars, calls, prep, task, ret,
                   committed, written>>

\* port.recv() gave (exe, v); prep.ctxt.db.write(|db| ...): the write access
\* is taken ...
WriteLock(p) ==
    /\ pc[p] = "waiting"
    /\ PortRecv(task[p]) = "message"
    /\ can_write(lock)
    /\ lock' = write_lock(lock, p)
    /\ pc' = [pc EXCEPT ![p] = "writing"]
    /\ UNCHANGED <<ctx, nested, disk, envSteps, dbvars, calls, prep, cached, task, ret,
                   seen, histvars>>

\* ... db.cache(..) runs, and the access is given up.
WriteCache(p) ==
    /\ pc[p] = "writing"
    /\ db_cache' = CommitMap(db_cache, prep[p], task[p])
    /\ db_dirty' = cache_dirty(db_dirty)
    /\ lock' = write_unlock(lock, p)
    /\ pc' = [pc EXCEPT ![p] = "committed"]
    /\ lastCommit' = CommitOf(p)
    /\ committed' = committed \cup {PairOf(p)}
    /\ written' = written \cup {WrittenBy(p)}
    /\ lastFail' = NoCommit
    /\ UNCHANGED <<ctx, nested, disk, envSteps, store, open, freshness, calls, prep,
                   cached, task, ret, seen>>

\* The Prep and the Work go away; the caller may start over.
Finish(p) ==
    /\ pc[p] \in {"done", "failed"}
    /\ nested[p] = 0
    /\ pc' = [pc EXCEPT ![p] = "idle"]
    /\ prep' = [prep EXCEPT ![p] = NoPrep]
    /\ cached' = [cached EXCEPT ![p] = None]
    /\ task' = [task EXCEPT ![p] = NoTask]
    /\ ret' = [ret EXCEPT ![p] = NoRet]
    /\ seen' = [seen EXCEPT ![p] = NoSeen]
    /\ UNCHANGED <<concvars, disk, envSteps, dbvars, calls, histvars>>

\* ------------------------------------------------- a call inside a body
\* let subcx = cx.clone(); ... prep.exec(|_exe| { ... subcx.prep("subfn") ... }):
\* the running body of caller p's call makes a Prep through the clone q.
NestedPrep(p, q, fn) ==
    /\ open
    /\ Running(p)
    /\ q # p
    /\ Live(q)
    /\ pc[q] = "idle"
    /\ nested[q] = 0
    /\ calls < MaxCalls
    /\ calls' = calls + 1
    /\ nested' = [nested EXCEPT ![q] = p]
    /\ pc' = [pc EXCEPT ![q] = "prep"]
    /\ prep' = [prep EXCEPT ![q] = [fn_name |-> fn, declared_inputs |-> WorkMapNew,
                                    ndecl |-> 0, n |-> calls + 1, said |-> <<>>]]
    /\ UNCHANGED <<lock, ctx, disk, envSteps, dbvars, cached, task, ret, seen, histvars>>

\* The call made inside the body is over: the body goes on, or, when the
\* inner call failed, the body's task unwinds with it.
NestedFinish(q) ==
    /\ pc[q] \in {"done", "failed"}
    /\ nested[q] # 0
    /\ nested' = [nested EXCEPT ![q] = 0]
    /\ pc' = [pc EXCEPT ![q] = "idle"]
    /\ prep' = [prep EXCEPT ![q] = NoPrep]
    /\ cached' = [cached EXCEPT ![q] = None]
    /\ task' = [task EXCEPT ![q] = NoTask,
                            ![nested[q]].st = IF pc[q] = "failed" THEN "failed" ELSE @]
    /\ ret' = [ret EXCEPT ![q] = NoRet]
    /\ seen' = [seen EXCEPT ![q] = NoSeen]
    /\ UNCHANGED <<lock, ctx, disk, envSteps, dbvars, calls, histvars>>

\* ------------------------------------------------------------------ Spec
\* The steps of the environment: the paths it may write, the modification
\* times its writes leave, the paths it may delete.
EnvNext(writes, times, deletes) ==
    \/ \E path \in writes, c \in 1..MaxContent, t \in times : EnvWrite(path, c, t)
    \/ \E path \in deletes : EnvDelete(path)

\* The steps of the callers in P and of the bodies they spawn.
CallerNext(P) ==
    \/ \E p \in P, fn \in FnNames : PrepNew(p, fn)
    \/ \E p \in P, recipe \in Recipes : DeclareCall(p, recipe)
    \/ \E p \in P, recipe \in Recipes : DeclareFail(p, recipe)
    \/ \E p \in P : DeclareValue(p)
    \/ \E p \in P : ExecLookup(p)
    \/ \E p \in P : ExecHit(p)
    \/ \E p \in P : ExecMiss(p)
    \/ \E p \in P : ExecFreshnessFail(p)
    \/ \E p \in P, x \in Discoveries : BodyDiscover(p, x)
    \/ \E p \in P, c \in 1..MaxContent : BodyWrite(p, "a.o", c)
    \/ \E p \in P : BodyReturn(p)
    \/ \E p \in P : BodyFail(p)
    \/ \E p \in P : UnwrapCommit(p)
    \/ \E p \in P : UnwrapReturn(p)
    \/ \E p \in P : UnwrapFail(p)
    \/ \E p \in P : Finish(p)

\* The Context's life: teardown and a new Context on the same store.
SessionNext == Open \/ Teardown

\* One Context, one caller at a time: exec calls follow each other while the
\* environment edits and removes the source and removes the output.
Next == CallerNext({1}) \/ EnvNext({"a.c"}, {1}, {"a.c", "a.o"})

Spec == Init /\ [][Next]_vars

\* The callers alone, on a disk nobody else touches, under the scheduling the
\* runtime gives: a caller blocked in recv runs again once its channel has a
\* message or has lost its sender, and every other step of a caller or of a
\* body is taken in the end.
NextLive ==
    \/ \E fn \in FnNames : PrepNew(1, fn)
    \/ \E recipe \in Recipes : DeclareCall(1, recipe)
    \/ DeclareValue(1)
    \/ ExecLookup(1)
    \/ ExecHit(1)
    \/ ExecMiss(1)
    \/ ExecFreshnessFail(1)
    \/ \E x \in Discoveries : BodyDiscover(1, x)
    \/ \E c \in 1..MaxContent : BodyWrite(1, "a.o", c)
    \/ BodyReturn(1)
    \/ BodyFail(1)
    \/ UnwrapCommit(1)
    \/ UnwrapReturn(1)
    \/ UnwrapFail(1)
    \/ Finish(1)

SpecLive ==
    /\ Init
    /\ [][NextLive]_vars
    /\ WF_vars(UnwrapFail(1))

\* The spawned body comes to its end, one way or the other.
BodyEnds(p) == BodyReturn(p) \/ BodyFail(p)

\* The same caller under fair scheduling: the spawned task is scheduled
\* until its body has ended, and the caller's task, once recv can deliver,
\* runs unwrap to its end.
SpecFair ==
    /\ Init
    /\ [][NextLive]_vars
    /\ WF_vars(BodyEnds(1))
    /\ WF_vars(UnwrapCommit(1))
    /\ WF_vars(UnwrapReturn(1))
    /\ WF_vars(UnwrapFail(1))

\* Two Preps that declare triples of KeyTriples in any order; the first
\* execs, with a body that only returns, while the second is being built.
NextKey ==
    \/ Clone(1, 2)
    \/ \E p \in Procs, fn \in FnNames : PrepNew(p, fn)
    \/ \E p \in Procs, x \in KeyTriples : DeclareTriple(p, x)
    \/ ExecLookup(1)
    \/ ExecHit(1)
    \/ ExecMiss(1)
    \/ ExecFreshnessFail(1)
    \/ BodyReturn(1)
    \/ UnwrapCommit(1)
    \/ UnwrapReturn(1)
    \/ Finish(1)

SpecKey == Init /\ [][NextKey]_vars

\* One caller over several Contexts on one store location: each Context is
\* torn down when the caller is done with it and a new one is opened; the
\* environment may remove the output file.
NextSession ==
    \/ Open
    \/ Teardown
    \/ \E fn \in FnNames : PrepNew(1, fn)
    \/ \E recipe \in Recipes : DeclareCall(1, recipe)
    \/ DeclareValue(1)
    \/ ExecLookup(1)
    \/ ExecHit(1)
    \/ ExecMiss(1)
    \/ ExecFreshnessFail(1)
    \/ \E x \in Discoveries : BodyDiscover(1, x)
    \/ BodyReturn(1)
    \/ BodyFail(1)
    \/ UnwrapCommit(1)
    \/ UnwrapReturn(1)
    \/ UnwrapFail(1)
    \/ Finish(1)
    \/ EnvDelete("a.o")

SpecSession == Init /\ [][NextSession]_vars

\* One caller whose facts are all of kind "call", with an environment that
\* edits or touches the program, the source and the output, and deletes the
\* source or the output.
CallDiscoveries == {x \in Discoveries : x.kind = "call"}

NextFresh ==
    \/ \E fn \in FnNames : PrepNew(1, fn)
    \/ \E recipe \in Recipes : DeclareCall(1, recipe)
    \/ \E recipe \in Recipes : DeclareFail(1, recipe)
    \/ ExecLookup(1)
    \/ ExecHit(1)
    \/ ExecMiss(1)
    \/ \E x \in CallDiscoveries : BodyDiscover(1, x)
    \/ BodyReturn(1)
    \/ UnwrapCommit(1)
    \/ UnwrapReturn(1)
    \/ Finish(1)
    \/ EnvNext({"cc", "a.c", "a.o"}, {1, 2}, {"a.c", "a.o"})

SpecFresh == Init /\ [][NextFresh]_vars

\* Two callers on clones of one Context that make calls for two functions,
\* "Call" as the builders do and "find_program", each with at most one
\* declared command.
IsoFnNames == {"Call", "find_program"}

NextIso ==
    \/ Clone(1, 2)
    \/ \E p \in Procs, fn \in IsoFnNames : PrepNew(p, fn)
    \/ \E p \in Procs, recipe \in Recipes : DeclareCall(p, recipe)
    \/ \E p \in Procs : ExecLookup(p)
    \/ \E p \in Procs : ExecHit(p)
    \/ \E p \in Procs : ExecMiss(p)
    \/ \E p \in Procs : BodyReturn(p)
    \/ \E p \in Procs : UnwrapCommit(p)
    \/ \E p \in Procs : UnwrapReturn(p)
    \/ \E p \in Procs : Finish(p)

SpecIso == Init /\ [][NextIso]_vars

\* One caller that declares up to MaxKeyTriples facts, a command that reads
\* the source under the name "names" or a fact of kind "value" under the
\* empty name, whose body records up to MaxDiscoveries facts, and an
\* environment that deletes the source or the output.
OrderTriples == {x \in KeyTriples : x.name = "names" \/ x.kind = "value"}

NextOrder ==
    \/ \E fn \in FnNames : PrepNew(1, fn)
    \/ \E x \in OrderTriples : DeclareTriple(1, x)
    \/ ExecLookup(1)
    \/ ExecHit(1)
    \/ ExecMiss(1)
    \/ ExecFreshnessFail(1)
    \/ \E x \in Discoveries : BodyDiscoverSeveral(1, x)
    \/ BodyReturn(1)
    \/ UnwrapCommit(1)
    \/ UnwrapReturn(1)
    \/ Finish(1)
    \/ \E path \in {"a.c", "a.o"} : EnvDelete(path)

SpecOrder == Init /\ [][NextOrder]_vars

\* The same, with an environment that damages or removes the store file.
NextStore ==
    \/ NextSession
    \/ OpenFail
    \/ \E form \in StoreForms : EnvStore(form)

SpecStore == Init /\ [][NextStore]_vars

\* The sessions of NextSession with an environment that also edits the
\* source file, so that the declared inputs of a call can change and come
\* back.
NextKeep ==
    \/ NextSession
    \/ \E c \in 1..MaxContent : EnvWrite("a.c", c, 1)

SpecKeep == Init /\ [][NextKeep]_vars

\* Two callers, each with a clone of the one Context, exec concurrently; the
\* lookups and commits take and give up the RWArc step by step.  Bodies
\* record the output of the command and return.
ConcDiscoveries == {x \in Discoveries : x.kind = "call" /\ x.dir = "out"}

NextConc ==
    \/ Clone(1, 2)
    \/ \E p \in Procs : CloneDrop(p)
    \/ Teardown
    \/ \E p \in Procs, fn \in FnNames : PrepNew(p, fn)
    \/ \E p \in Procs, recipe \in Recipes : DeclareCall(p, recipe)
    \/ \E p \in Procs : ReadLock(p)
    \/ \E p \in Procs : ReadPrepare(p)
    \/ \E p \in Procs : ExecHit(p)
    \/ \E p \in Procs : ExecMiss(p)
    \/ \E p \in Procs, x \in ConcDiscoveries : BodyDiscover(p, x)
    \/ \E p \in Procs : BodyReturn(p)
    \/ \E p \in Procs : WriteLock(p)
    \/ \E p \in Procs : WriteCache(p)
    \/ \E p \in Procs : UnwrapReturn(p)
    \/ \E p \in Procs : Finish(p)

SpecConc == Init /\ [][NextConc]_vars

\* The steps of caller q's call, lock step by lock step, with a body that
\* returns or fails.
LockStep(q) ==
    \/ ReadLock(q)
    \/ ReadPrepare(q)
    \/ ExecHit(q)
    \/ ExecMiss(q)
    \/ WriteLock(q)
    \/ WriteCache(q)
    \/ UnwrapReturn(q)
    \/ UnwrapFail(q)

\* Caller 1 makes calls whose body may make a call through the clone held
\* by caller 2, as the test's body does with subcx.
NextNested ==
    \/ Clone(1, 2)
    \/ \E fn \in FnNames : PrepNew(1, fn)
    \/ \E fn \in FnNames : NestedPrep(1, 2, fn)
    \/ \E p \in Procs, recipe \in Recipes : DeclareCall(p, recipe)
    \/ \E p \in Procs : LockStep(p)
    \/ \E p \in Procs : BodyReturn(p)
    \/ \E p \in Procs : BodyFail(p)
    \/ Finish(1)
    \/ NestedFinish(2)

\* The spawned bodies and the task that runs the inner call are scheduled
\* fairly.
SpecNested ==
    /\ Init
    /\ [][NextNested]_vars
    /\ WF_vars(LockStep(2))
    /\ WF_vars(BodyEnds(2))
    /\ WF_vars(NestedFinish(2))

\* ============================================================= properties
\* The step in which exec_work of caller p decides on the looked-up record.
Decided(p) == pc[p] = "lookedup" /\ pc'[p] # "lookedup"

\* The facts exec_work judges for caller p, in the order it judges them:
\* declared inputs, then stored discovered inputs, then stored discovered
\* outputs; each fact is <<name, kind, value>>.
FactsOf(p) ==
    Flatten(prep[p].declared_inputs) \o Flatten(cached[p].disc_in)
        \o Flatten(cached[p].disc_out)

\* The verdict of the registered predicate on one fact, on the disk as it is.
Verdict(f) == is_fresh(freshness, disk, f[2], f[1], f[3])

AllJudgedFresh(p) == \A i \in 1..Len(FactsOf(p)) : Verdict(FactsOf(p)[i]) = "fresh"

SomeJudgedStale(p) == \E i \in 1..Len(FactsOf(p)) : Verdict(FactsOf(p)[i]) = "stale"

\* The first fact that is not fresh is one whose evaluation fails.
FailsBeforeStale(p) ==
    \E i \in 1..Len(FactsOf(p)) :
        /\ Verdict(FactsOf(p)[i]) = "fail"
        /\ \A j \in 1..(i - 1) : Verdict(FactsOf(p)[j]) = "fresh"

KeyOf(p) == DbKey(prep[p].fn_name, prep[p].declared_inputs)

\* C1: when the database holds a record for the key and every declared
\* input, stored discovered input and stored discovered output is judged
\* fresh, exec returns the result stored in that record and no body runs.
HitCorrectness ==
    [][\A p \in Procs :
          (/\ Decided(p)
           /\ KeyOf(p) \in DOMAIN db_cache
           /\ AllJudgedFresh(p))
          => /\ pc'[p] = "done"
             /\ ret'[p] = [kind |-> "value", v |-> DbDecode(db_cache[KeyOf(p)]).res]
             /\ task'[p].st = "none"]_vars

\* A hit on a record that stores discovered outputs, under declared inputs.
HitCorrectnessWitness ==
    \E p \in Procs :
        /\ pc[p] = "done"
        /\ cached[p].some
        /\ ret[p] = [kind |-> "value", v |-> cached[p].res]
        /\ task[p].st = "none"
        /\ prep[p].declared_inputs # WorkMapNew
        /\ cached[p].disc_out # WorkMapNew

\* C2 as stated: a hit only on all-fresh facts, and any stale fact makes
\* exec run the body.
StaleRunsBody ==
    [][\A p \in Procs :
          (Decided(p) /\ cached[p].some)
          => /\ (pc'[p] = "done" => AllJudgedFresh(p))
             /\ (SomeJudgedStale(p)
                    => pc'[p] = "waiting" /\ task'[p].st = "running")]_vars

\* C2 (amended): a hit happens only if every fact of the three groups is
\* judged fresh; with any stale fact the stored result is not returned, and
\* the body is run unless a fact judged before the first stale one has no
\* usable freshness function, in which case the exec call fails.
StaleNeverHits ==
    [][\A p \in Procs :
          (Decided(p) /\ cached[p].some)
          => /\ (pc'[p] = "done" => AllJudgedFresh(p))
             /\ (SomeJudgedStale(p)
                    => \/ /\ ~FailsBeforeStale(p)
                          /\ pc'[p] = "waiting"
                          /\ task'[p].st = "running"
                          /\ ret'[p] = NoRet
                       \/ /\ FailsBeforeStale(p)
                          /\ pc'[p] = "failed"
                          /\ ret'[p].kind = "failure"
                          /\ task'[p].st = "none")]_vars

\* A miss on a record whose declared inputs are fresh and whose only stale
\* fact is a stored discovered output.
StaleNeverHitsWitness ==
    \E p \in Procs :
        /\ pc[p] = "waiting"
        /\ task[p].st = "running"
        /\ task[p].steps = 0
        /\ cached[p].some
        /\ all_fresh(freshness, disk, prep[p].declared_inputs).res = "fresh"
        /\ all_fresh(freshness, disk, cached[p].disc_in).res = "fresh"
        /\ all_fresh(freshness, disk, cached[p].disc_out).res = "stale"

\* C3: when the database holds no record for the key, exec runs the body
\* and returns the value the body returned.
NoRecordRunsBody ==
    [][\A p \in Procs :
          /\ (Decided(p) /\ KeyOf(p) \notin DOMAIN db_cache)
                => pc'[p] = "waiting" /\ task'[p].st = "running" /\ ret'[p] = NoRet
          /\ (pc'[p] = "done" /\ pc[p] # "done" /\ ~cached[p].some)
                => /\ task[p].st = "sent"
                   /\ ret'[p] = [kind |-> "value", v |-> ResultOf(prep[p].n)]]_vars

\* A call that found no record has returned its body's value.
NoRecordRunsBodyWitness ==
    \E p \in Procs :
        /\ pc[p] = "done"
        /\ ~cached[p].some
        /\ task[p].st = "sent"
        /\ ret[p] = [kind |-> "value", v |-> task[p].v]

\* C4: on a miss whose body completes, the record for the key is written,
\* replacing any earlier one, before exec returns; it holds the discovered
\* inputs and outputs of the run and the value that exec returns.
CommitBeforeReturn ==
    [][\A p \in Procs :
          /\ (pc[p] = "waiting" /\ task[p].st = "sent" /\ pc'[p] # "waiting")
                => /\ pc'[p] = "committed"
                   /\ prepare(db_cache', prep[p].fn_name, prep[p].declared_inputs)
                        = Some(task[p].exe.discovered_inputs,
                               task[p].exe.discovered_outputs, task[p].v)
                   /\ DOMAIN db_cache' = DOMAIN db_cache \cup {KeyOf(p)}
                   /\ \A k \in DOMAIN db_cache : k # KeyOf(p) => db_cache'[k] = db_cache[k]
                   /\ db_dirty'
          /\ (pc'[p] = "done" /\ pc[p] # "done" /\ task[p].st # "none")
                => /\ pc[p] = "committed"
                   /\ ret'[p] = [kind |-> "value", v |-> task[p].v]
                   /\ KeyOf(p) \in DOMAIN db_cache
                   /\ DbDecode(db_cache[KeyOf(p)]).res = ret'[p].v]_vars

\* A miss that replaced an earlier record by one with a discovered output
\* and then returned.
CommitBeforeReturnWitness ==
    \E p \in Procs :
        /\ pc[p] = "done"
        /\ task[p].st = "sent"
        /\ cached[p].some
        /\ task[p].exe.discovered_outputs # WorkMapNew
        /\ prepare(db_cache, prep[p].fn_name, prep[p].declared_inputs)
             = Some(task[p].exe.discovered_inputs, task[p].exe.discovered_outputs,
                    ret[p].v)
        /\ prepare(db_cache, prep[p].fn_name, prep[p].declared_inputs) # cached[p]

\* The step in which caller p's call writes its record.
Commits(p) == pc[p] = "waiting" /\ pc'[p] = "committed"

\* C5 as stated: a call whose body fails writes nothing (map and dirty flag
\* as before the call), and the next exec call for the same key is a miss.
FailureThenMiss ==
    [][/\ (\A p \in Procs : ~Commits(p)) => UNCHANGED <<db_cache, db_dirty>>
       /\ \A p \in Procs :
             /\ (pc[p] = "waiting" /\ task[p].st = "failed") => ~Commits(p)
             /\ (Decided(p) /\ seen[p].afterFail)
                   => pc'[p] = "waiting" /\ task'[p].st = "running"]_vars

\* C5 (amended): a call whose body fails writes nothing: only the commit
\* step of a call changes the map or the dirty flag, and a call whose body
\* failed has no commit step.  The next exec call for the same key is a miss
\* when the database held no record for the key before the failed call;
\* otherwise it is decided on that earlier record, untouched.
NoCommitOnFailure ==
    [][/\ (\A p \in Procs : ~Commits(p)) => UNCHANGED <<db_cache, db_dirty>>
       /\ \A p \in Procs :
             /\ (pc[p] = "waiting" /\ task[p].st = "failed") => ~Commits(p)
             /\ (Decided(p) /\ seen[p].afterFail /\ KeyOf(p) \notin DOMAIN db_cache)
                   => pc'[p] = "waiting" /\ task'[p].st = "running"
             /\ (Decided(p) /\ seen[p].afterFail /\ pc'[p] = "done")
                   => PairOf(p) \in committed]_vars

\* The call after a failed one, for the same key, found no record and went
\* to its body; the database is still empty and clean.
NoCommitOnFailureWitness ==
    \E p \in Procs :
        /\ seen[p].afterFail
        /\ pc[p] = "waiting"
        /\ ~cached[p].some
        /\ db_cache = EmptyDb
        /\ ~db_dirty

\* C6: if the spawned body fails, the blocked exec call ends in a failure:
\* it never commits or returns a value, and it does not wait forever.
FailurePropagates ==
    /\ [][\A p \in Procs :
             (pc[p] = "waiting" /\ task[p].st = "failed" /\ pc'[p] # "waiting")
             => pc'[p] = "failed" /\ ret'[p] = [kind |-> "failure", v |-> "body"]]_vars
    /\ \A p \in Procs :
          (pc[p] = "waiting" /\ task[p].st = "failed") ~> (pc[p] = "failed")

\* An exec call ended by the failure of its body, after the body had made a
\* discovery.
FailurePropagatesWitness ==
    \E p \in Procs :
        /\ pc[p] = "failed"
        /\ task[p].st = "failed"
        /\ task[p].steps > 0
        /\ ret[p] = [kind |-> "failure", v |-> "body"]

\* C7: an exec call that hits writes nothing: from the lookup to the return
\* the record map, and so the record's stored discovered inputs and outputs,
\* the dirty flag and the store file stay as they were.
HitWritesNothing ==
    [][\A p \in Procs :
          /\ (pc[p] = "prep" /\ pc'[p] = "lookedup")
                => UNCHANGED <<db_cache, db_dirty, store>>
          /\ (pc[p] = "lookedup" /\ pc'[p] = "done")
                => /\ UNCHANGED <<db_cache, db_dirty, store>>
                   /\ prepare(db_cache', prep[p].fn_name, prep[p].declared_inputs)
                        = cached[p]]_vars

\* A hit on a record with stored discoveries, in a database that a commit
\* had marked dirty.
HitWritesNothingWitness ==
    \E p \in Procs :
        /\ pc[p] = "done"
        /\ task[p].st = "none"
        /\ ret[p].kind = "value"
        /\ db_dirty
        /\ cached[p].disc_in # WorkMapNew \/ cached[p].disc_out # WorkMapNew
        /\ prepare(db_cache, prep[p].fn_name, prep[p].declared_inputs) = cached[p]

\* The set of triples a Prep was given, whatever the order.
TriplesOf(p) == {prep[p].said[i] : i \in 1..Len(prep[p].said)}

\* No two of the triples agree on kind and name and differ in value.
DistinctPairs(T) == \A x \in T, y \in T : (x[1] = y[1] /\ x[2] = y[2]) => x = y

SameKey(p, q) ==
    /\ prep[p].declared_inputs = prep[q].declared_inputs
    /\ KeyOf(p) = KeyOf(q)
    /\ prepare(db_cache, prep[p].fn_name, prep[p].declared_inputs)
         = prepare(db_cache, prep[q].fn_name, prep[q].declared_inputs)

\* C8 as stated: two Preps of one function given the same set of triples, in
\* any order, hold the same declared-inputs map and key, and a lookup under
\* either finds the same record.
KeyOrderFree ==
    \A p \in Procs, q \in Procs :
        (prep[p].fn_name = prep[q].fn_name /\ TriplesOf(p) = TriplesOf(q))
        => SameKey(p, q)

\* C8 (amended): two Preps of one function given the same set of triples, no
\* two of which share kind and name with different values, in any order,
\* hold the same declared-inputs map and key, and a lookup under either
\* finds the same record.
KeyDeterminism ==
    \A p \in Procs, q \in Procs :
        (/\ prep[p].fn_name = prep[q].fn_name
         /\ TriplesOf(p) = TriplesOf(q)
         /\ DistinctPairs(TriplesOf(p)))
        => SameKey(p, q)

\* A record committed under one declaration order is the one a Prep built
\* in the opposite order looks up.
KeyDeterminismWitness ==
    \E p \in Procs, q \in Procs :
        /\ pc[p] = "done"
        /\ task[p].st = "sent"
        /\ pc[q] = "prep"
        /\ Len(prep[p].said) = 2
        /\ prep[q].said = <<prep[p].said[2], prep[p].said[1]>>
        /\ prep[p].said[1] # prep[p].said[2]
        /\ DistinctPairs(TriplesOf(p))
        /\ prepare(db_cache, prep[q].fn_name, prep[q].declared_inputs)
             = Some(task[p].exe.discovered_inputs, task[p].exe.discovered_outputs,
                    ret[p].v)

\* The Call declared under kind "call" and name "", if there is one.
HasCall(map) == TreeHas(map, "") /\ TreeHas(TreeGet(map, ""), "call")

CallOf(map) == TreeGet(TreeGet(map, ""), "call")

\* Two declared Calls are the same command on the same paths, and the
\* digest of an input path argument differs: that file's content changed.
InputContentChanged(old, new) ==
    /\ HasCall(old)
    /\ HasCall(new)
    /\ Len(CallOf(old)) = Len(CallOf(new))
    /\ \A i \in 1..Len(CallOf(old)) :
          CallOf(old)[i][1] = CallOf(new)[i][1] /\ CallOf(old)[i][2] = CallOf(new)[i][2]
    /\ \E i \in 2..Len(CallOf(old)) :
          CallOf(old)[i][1] = "InputPath" /\ CallOf(old)[i][3] # CallOf(new)[i][3]

\* Caller p's call follows a committed call of the same function, and a
\* declared input file has changed content in between.
ChangedSinceCommit(p) ==
    /\ seen[p].prev.some
    /\ seen[p].prev.fn_name = prep[p].fn_name
    /\ InputContentChanged(seen[p].prev.declared_inputs, prep[p].declared_inputs)

RecordedOutputRemoved(p) ==
    \E i \in 1..Len(Flatten(cached[p].disc_out)) :
        LET f == Flatten(cached[p].disc_out)[i]
        IN  f[2] = "path" /\ ~exists(disk, f[3][1][2])

\* C10 as stated: after a run that recorded a discovered output path, with
\* that file deleted and the declared inputs unchanged and fresh, the next
\* call is a miss: the body runs again.
OutputRemovalIsMiss ==
    [][\A p \in Procs :
          (/\ Decided(p)
           /\ cached[p].some
           /\ all_fresh(freshness, disk, prep[p].declared_inputs).res = "fresh"
           /\ all_fresh(freshness, disk, cached[p].disc_in).res = "fresh"
           /\ RecordedOutputRemoved(p))
          => pc'[p] = "waiting" /\ task'[p].st = "running"]_vars

\* What the call does instead: it fails in the freshness check.
OutputRemovalFails ==
    \E p \in Procs :
        /\ pc[p] = "failed"
        /\ ret[p] = [kind |-> "failure", v |-> "freshness"]
        /\ cached[p].some
        /\ all_fresh(freshness, disk, prep[p].declared_inputs).res = "fresh"
        /\ all_fresh(freshness, disk, cached[p].disc_in).res = "fresh"
        /\ RecordedOutputRemoved(p)

\* Freshness evaluation for caller p reaches a fact whose kind is not in the
\* freshness map: every fact before it, in evaluation order, has a
\* registered kind and is judged fresh by that kind's function.
ReachesUnregistered(p) ==
    /\ cached[p].some
    /\ \E i \in 1..Len(FactsOf(p)) :
          /\ FactsOf(p)[i][2] \notin DOMAIN freshness
          /\ \A j \in 1..(i - 1) :
                /\ FactsOf(p)[j][2] \in DOMAIN freshness
                /\ call_is_fresh(disk, FactsOf(p)[j][1], FactsOf(p)[j][3]) = "fresh"

\* C11: when freshness evaluation reaches a fact whose kind has no function
\* in the freshness map, the exec call fails: it is not a hit, no body is
\* run, and nothing is written to the database.
UnregisteredKindIsFatal ==
    [][\A p \in Procs :
          (Decided(p) /\ ReachesUnregistered(p))
          => /\ pc'[p] = "failed"
             /\ ret'[p] = [kind |-> "failure", v |-> "freshness"]
             /\ task'[p].st = "none"
             /\ UNCHANGED <<db_cache, db_dirty>>]_vars

\* An exec call failed on a declared input of kind "value", on the second
\* run for its key: the first run had committed the record.
UnregisteredKindIsFatalWitness ==
    \E p \in Procs :
        /\ pc[p] = "failed"
        /\ ret[p] = [kind |-> "failure", v |-> "freshness"]
        /\ ReachesUnregistered(p)
        /\ TreeHas(prep[p].declared_inputs, "names")
        /\ PairOf(p) \in committed

\* The keys under which some exec call has committed, in any Context.
CommittedKeys == {DbKey(x[1], x[2]) : x \in committed}

\* The step that tears the Context down, and the step that opens a new one.
TearsDown == open /\ ~open'

Opens == ~open /\ open'

\* C12: what save writes, load reads back as the same mapping of keys to
\* records; so a new Context on the same location starts with the records
\* committed before, and a call in it whose record's facts are all fresh is
\* a hit returning the stored result.
SessionRoundTrip ==
    /\ [](open /\ ~db_dirty /\ store.present => db_cache = load(store))
    /\ [](open /\ ~db_dirty => DOMAIN db_cache = CommittedKeys)
    /\ [][/\ (TearsDown /\ db_dirty) => store'.present /\ load(store') = db_cache
          /\ Opens => db_cache' = (IF store.present THEN load(store) ELSE EmptyDb)
          /\ \A p \in Procs :
                (/\ Decided(p)
                 /\ ~db_dirty
                 /\ KeyOf(p) \in DOMAIN db_cache
                 /\ AllJudgedFresh(p))
                => /\ pc'[p] = "done"
                   /\ ret'[p] = [kind |-> "value",
                                 v |-> DbDecode(load(store)[KeyOf(p)]).res]
                   /\ task'[p].st = "none"]_vars

\* A hit in a Context that has committed nothing itself: the record, with a
\* discovered output, came from the store.
SessionRoundTripWitness ==
    \E p \in Procs :
        /\ open
        /\ ~db_dirty
        /\ store.present
        /\ pc[p] = "done"
        /\ task[p].st = "none"
        /\ cached[p].some
        /\ cached[p].disc_out # WorkMapNew
        /\ ret[p] = [kind |-> "value", v |-> cached[p].res]

\* C13: at teardown the Database writes its whole map to the store file if
\* and only if it is dirty; it is dirty exactly when a commit happened in
\* this Context, so a Context with only lookups and hits never writes the
\* file, and nothing but a teardown writes it.
TeardownSavesIffDirty ==
    [][/\ TearsDown => store' = (IF db_dirty THEN save(db_cache) ELSE store)
       /\ store' # store => TearsDown /\ db_dirty
       /\ (\E p \in Procs : Commits(p)) => db_dirty'
       /\ (~db_dirty /\ db_dirty') => \E p \in Procs : Commits(p)
       /\ (db_dirty /\ ~db_dirty') => TearsDown]_vars

\* A Context that took a record from the store and only hit on it has been
\* torn down: the store is as the earlier Context wrote it.
TeardownSavesIffDirtyWitness ==
    /\ ~open
    /\ store.present
    /\ to_json(from_json(store.json)) = store.json
    /\ Cardinality(store.json) = 1
    /\ calls = 2
    /\ Cardinality(committed) = 1
    /\ lastCommit = NoCommit
    /\ lastFail = NoCommit

\* A caller's lookup is between taking and giving up the read access.
Looking(p) == pc[p] = "reading"

\* A caller's commit is between taking and giving up the write access.
Committing(p) == pc[p] = "writing"

\* The lookup of caller p's call ends in this step.
LookupEnds(p) == pc[p] = "reading" /\ pc'[p] = "lookedup"

\* The commit of caller p's call ends in this step.
CommitEnds(p) == pc[p] = "writing" /\ pc'[p] = "committed"

\* C14: reader/writer discipline on the Database.  While a commit is under
\* way no other caller is looking up or committing; lookups may overlap.
\* The map does not change while any lookup is under way, and a lookup
\* returns either no record or a (discovered inputs, discovered outputs,
\* result) triple that one single commit stored under that key.
ReaderWriterDiscipline ==
    /\ [](\A p \in Procs :
            /\ Committing(p) =>
                 /\ lock.writer = p
                 /\ lock.readers = {}
                 /\ \A q \in Procs \ {p} : ~Looking(q) /\ ~Committing(q)
            /\ Looking(p) <=> p \in lock.readers
            /\ lock.writer # 0 => Committing(lock.writer)
            /\ pc[p] = "lookedup" /\ cached[p].some =>
                 <<KeyOf(p), cached[p]>> \in written)
    /\ [][/\ (\E p \in Procs : Looking(p)) => db_cache' = db_cache
          /\ \A p \in Procs :
               LookupEnds(p) =>
                 /\ cached'[p] = prepare(db_cache, prep[p].fn_name,
                                         prep[p].declared_inputs)
                 /\ cached'[p].some => <<KeyOf(p), cached'[p]>> \in written]_vars

\* Two lookups overlap on a database that holds a record, while no commit
\* is under way.
ReaderWriterDisciplineWitness ==
    /\ lock.readers = Procs
    /\ lock.writer = 0
    /\ db_cache # EmptyDb
    /\ \A p \in Procs : Looking(p)

\* Caller p's call missed, its body ran to its end and its commit is over.
MissedAndCommitted(p) ==
    /\ pc[p] \in {"committed", "done"}
    /\ ~cached[p].some
    /\ task[p].st = "sent"

\* C15: last writer wins.  A call that misses runs its body and commits,
\* whatever another caller is doing for the same key; a commit leaves under
\* its key exactly the record it wrote, whatever record was there, and
\* leaves every other key alone; while the Context lives nothing but a
\* commit changes the map; and a lookup returns what the map holds when it
\* runs.
LastWriterWins ==
    [][/\ \A p \in Procs :
            /\ (pc[p] = "lookedup" /\ ~cached[p].some /\ pc'[p] # "lookedup")
                  => pc'[p] = "waiting" /\ task'[p].st = "running"
            /\ (pc[p] = "waiting" /\ pc'[p] # "waiting")
                  => pc'[p] = "writing" /\ task[p].st = "sent"
            /\ (pc[p] = "writing" /\ pc'[p] # "writing") => CommitEnds(p)
            /\ CommitEnds(p) =>
                  /\ prepare(db_cache', prep[p].fn_name, prep[p].declared_inputs)
                       = WrittenBy(p)[2]
                  /\ \A k \in DOMAIN db_cache \ {KeyOf(p)} :
                        k \in DOMAIN db_cache' /\ db_cache'[k] = db_cache[k]
            /\ LookupEnds(p) =>
                  cached'[p] = prepare(db_cache', prep[p].fn_name,
                                       prep[p].declared_inputs)
       /\ (db_cache' # db_cache /\ ~TearsDown) => \E p \in Procs : CommitEnds(p)]_vars

\* Both callers missed on the same key, both bodies ran and both commits are
\* over; the records differ and the map holds the second caller's, which
\* replaced the first caller's.
LastWriterWinsWitness ==
    /\ \A p \in Procs : MissedAndCommitted(p)
    /\ KeyOf(1) = KeyOf(2)
    /\ WrittenBy(1) # WrittenBy(2)
    /\ {WrittenBy(1), WrittenBy(2)} \subseteq written
    /\ prepare(db_cache, prep[1].fn_name, prep[1].declared_inputs) = WrittenBy(2)[2]

\* A clone goes away in this step and another one stays.
CloneGoes == ctx' # ctx /\ (\E p \in Procs : Live(p) /\ ctx'[p] = NoContext)
                        /\ (\E p \in Procs : ctx'[p] # NoContext)

CallOrder ==
    {<<"idle", "prep">>, <<"prep", "lookedup">>, <<"prep", "failed">>,
     <<"lookedup", "done">>, <<"lookedup", "waiting">>, <<"lookedup", "failed">>,
     <<"waiting", "committed">>, <<"waiting", "failed">>,
     <<"committed", "done">>, <<"done", "idle">>, <<"failed", "idle">>}

\* The call of caller p is over and its Prep and Work go away in this step.
CallGoes(p) == pc[p] \in {"done", "failed"} /\ pc'[p] = "idle"

\* C17: within one exec call the events come in a strict order.  Inputs are
\* declared only before the lookup; the lookup happens once, after them;
\* a hit returns the stored result and starts no body; on a miss the body
\* starts after the lookup, discovers only while it runs, and ends before
\* the commit; the commit needs the body's message; and a value is returned
\* only by a hit or after the commit.
EventOrder ==
    /\ [][\A p \in Procs :
            /\ pc'[p] # pc[p] => <<pc[p], pc'[p]>> \in CallOrder
            /\ (prep'[p] # prep[p] /\ ~CallGoes(p)) =>
                  /\ pc'[p] = "prep"
                  /\ task[p].st = "none"
                  /\ cached[p] = None
            /\ (cached'[p] # cached[p] /\ ~CallGoes(p)) =>
                  pc[p] = "prep" /\ pc'[p] = "lookedup"
            /\ (task'[p] # task[p] /\ ~CallGoes(p)) =>
                  /\ pc[p] \in {"lookedup", "waiting"}
                  /\ pc'[p] = "waiting"
                  /\ (pc[p] = "lookedup") <=> (task'[p].st = "running" /\ task[p].st = "none")
                  /\ pc[p] = "waiting" => task[p].st = "running"
            /\ Commits(p) => task[p].st = "sent"
            /\ (pc[p] = "lookedup" /\ pc'[p] = "done") =>
                  /\ task'[p].st = "none"
                  /\ ret'[p] = [kind |-> "value", v |-> cached[p].res]
            /\ (ret'[p].kind = "value" /\ ret[p].kind # "value") =>
                  \/ pc[p] = "lookedup" /\ cached[p].some
                  \/ pc[p] = "committed" /\ PairOf(p) \in committed]_vars
    /\ [](\A p \in Procs :
            /\ pc[p] = "committed" => task[p].st = "sent" /\ ret[p].kind = "none"
            /\ pc[p] \in {"idle", "prep", "lookedup"} =>
                  task[p].st = "none" /\ ret[p].kind = "none"
            /\ pc[p] \in {"idle", "prep"} => cached[p] = None
            /\ pc[p] = "waiting" => task[p].st # "none")

\* A call that declared an input, missed, ran a body that discovered an
\* output, committed and returned the body's result.
EventOrderWitness ==
    \E p \in Procs :
        /\ pc[p] = "done"
        /\ prep[p].declared_inputs # WorkMapNew
        /\ task[p].st = "sent"
        /\ task[p].exe.discovered_outputs # WorkMapNew
        /\ PairOf(p) \in committed
        /\ ret[p] = [kind |-> "value", v |-> task[p].v]

\* C18: on a miss the body runs in a spawned task of its own and the exec
\* call blocks until that task sends its one (Exec, result) message.  While
\* the body runs the caller does not move and returns nothing; the body's
\* steps change only the body's task; the message, once sent, stays as sent;
\* and, scheduled fairly, a call whose body sent its message returns the
\* body's result, and every call that waits comes to an end.
BlocksUntilMessage ==
    /\ [][\A p \in Procs :
            /\ (pc[p] = "waiting" /\ task[p].st = "running") =>
                  /\ pc'[p] = "waiting"
                  /\ ret'[p] = ret[p]
                  /\ db_cache' = db_cache
            /\ (task[p].st = "running" /\ task'[p] # task[p]) =>
                  UNCHANGED <<pc, prep, cached, ret, db_cache, db_dirty>>
            /\ (task[p].st = "sent" /\ ~CallGoes(p)) => task'[p] = task[p]]_vars
    /\ \A p \in Procs :
          (pc[p] = "waiting" /\ task[p].st = "sent")
             ~> (/\ pc[p] = "done"
                 /\ task[p].st = "sent"
                 /\ ret[p] = [kind |-> "value", v |-> task[p].v])
    /\ \A p \in Procs : (pc[p] = "waiting") ~> (pc[p] \in {"done", "failed"})

\* The body took a step, ended normally and sent its message, and the call
\* has returned the body's result.
BlocksUntilMessageWitness ==
    \E p \in Procs :
        /\ pc[p] = "done"
        /\ ~cached[p].some
        /\ task[p].st = "sent"
        /\ task[p].steps > 0
        /\ ret[p] = [kind |-> "value", v |-> task[p].v]
        /\ ret[p].v = ResultOf(prep[p].n)

\* Caller p holds an access to the Database.
HoldsLock(p) == p \in lock.readers \/ lock.writer = p

\* C19: a body may make a call through a clone of the Context while the
\* outer exec call waits for it.  A call that waits for its body holds
\* neither the read nor the write access of the Database; the inner call is
\* made only while the outer one waits with its body running, and the outer
\* call stays so until the inner one is over; the inner call's lookup and
\* commit are never kept out by the outer call; and, scheduled fairly, every
\* inner call comes to its end.
NestedCallNoDeadlock ==
    /\ [](\A p \in Procs :
            /\ pc[p] \in {"waiting", "lookedup", "committed", "done", "failed"}
                  => ~HoldsLock(p)
            /\ nested[p] # 0 =>
                  /\ pc[nested[p]] = "waiting"
                  /\ task[nested[p]].st = "running"
                  /\ ~HoldsLock(nested[p])
                  /\ pc[p] = "prep" => can_read(lock)
                  /\ (pc[p] = "waiting" /\ task[p].st = "sent") => can_write(lock))
    /\ \A q \in Procs : (nested[q] # 0) ~> (nested[q] = 0)

\* The body of caller 1's call is running and caller 1 waits for it; the
\* call the body made through caller 2's clone missed, ran its own body and
\* has committed its record.
NestedCallNoDeadlockWitness ==
    /\ nested[2] = 1
    /\ pc[1] = "waiting"
    /\ task[1].st = "running"
    /\ pc[2] = "committed"
    /\ WrittenBy(2) \in written
    /\ lock = Unlocked

\* The insertions of the sequence said that no later insertion for the same
\* (kind, name) pair follows, as <<kind, name, value>>.
LastSaid(said) ==
    {said[i] : i \in {j \in 1..Len(said) :
                        \A k \in (j + 1)..Len(said) :
                            <<said[k][1], said[k][2]>> # <<said[j][1], said[j][2]>>}}

\* The entries of a WorkMap as <<kind, name, value>>.
EntriesOf(map) ==
    LET f == Flatten(map) IN {<<f[i][2], f[i][1], f[i][3]>> : i \in 1..Len(f)}

\* C20: WorkMap insertion is last-write-wins.  After any sequence of
\* insertions the map holds one entry per (kind, name) pair inserted and no
\* other, each with the value of the most recent insertion for its pair;
\* and an insertion changes the value of no other pair.
WorkMapLastWriteWins ==
    /\ [](\A p \in Procs :
            LET map == prep[p].declared_inputs
                f   == Flatten(map)
            IN  /\ \A i, j \in 1..Len(f) :
                      (f[i][1] = f[j][1] /\ f[i][2] = f[j][2]) => i = j
                /\ EntriesOf(map) = LastSaid(prep[p].said))
    /\ [][\A p \in Procs :
            (Len(prep'[p].said) = Len(prep[p].said) + 1) =>
               LET x == prep'[p].said[Len(prep'[p].said)]
               IN  /\ x \in EntriesOf(prep'[p].declared_inputs)
                   /\ \A e \in EntriesOf(prep[p].declared_inputs) :
                         <<e[1], e[2]>> # <<x[1], x[2]>> =>
                             e \in EntriesOf(prep'[p].declared_inputs)]_vars

\* A Prep was given two values for the same (kind, name) pair: its map holds
\* one entry, with the second value.
WorkMapLastWriteWinsWitness ==
    \E p \in Procs :
        LET said == prep[p].said
        IN  /\ Len(said) = 2
            /\ <<said[1][1], said[1][2]>> = <<said[2][1], said[2][2]>>
            /\ said[1][3] # said[2][3]
            /\ EntriesOf(prep[p].declared_inputs) = {said[2]}

\* Database::new is tried in this step and fails.
OpenFails == ~open /\ pc[1] = "idle" /\ pc'[1] = "failed"

\* C21: Database::new loads an existing store eagerly and fully, starts
\* empty and clean when there is no store, and fails, producing no
\* Database, when the store cannot be opened or parsed.  A new Database
\* holds every member of the store file and nothing else, before any
\* lookup; while it lives only commits change its map; a store that does
\* not open or parse never gives a Database, only a failure of the
\* constructing task; and load never runs on a dirty Database or without a
\* file, so its assertions never fail.
LoadEagerOrFail ==
    /\ [][/\ Opens =>
               /\ ~db_dirty'
               /\ store.present => /\ store.form = "json"
                                   /\ to_json(db_cache') = store.json
                                   /\ db_cache' = load(store)
               /\ ~store.present => db_cache' = EmptyDb
          /\ (~open /\ store.present /\ store.form # "json") => ~open'
          /\ OpenFails =>
               /\ store.present
               /\ store.form # "json"
               /\ ret'[1].kind = "failure"
               /\ ret'[1].v = (IF store.form = "unreadable" THEN "open" ELSE "parse")
               /\ UNCHANGED <<db_cache, db_dirty, open, store, ctx>>
          /\ (open /\ open' /\ db_cache' # db_cache) => \E p \in Procs : Commits(p)
          /\ (\E p \in Procs : cached'[p] # cached[p] /\ pc'[p] = "lookedup") => open]_vars
    /\ [](\A p \in Procs : ret[p].v # "assert")
    /\ [](~open => (\A p \in Procs : ~Live(p)) /\ db_cache = EmptyDb /\ ~db_dirty)

\* A Context committed a record and saved it, the store file was then
\* damaged, and Database::new has failed on it.
LoadEagerOrFailWitness ==
    /\ ~open
    /\ committed # {}
    /\ store.present
    /\ store.form = "garbage"
    /\ pc[1] = "failed"
    /\ ret[1] = [kind |-> "failure", v |-> "parse"]

\* The lookup of caller p's call happens in this step.
LooksUp(p) == pc[p] = "prep" /\ pc'[p] = "lookedup"

\* The records stored so far under key k, by any commit.
StoredUnder(k) == {w \in written : w[1] = k}

\* C22: Database::cache overwrites any record the key has and marks the
\* Database dirty; a lookup returns the record of the most recent store for
\* its key, and absence, not an error, for a key never stored or loaded.
\* A store leaves under its key the record stored, keeps every other key and
\* its record, and sets the dirty flag; nothing else changes the map of a
\* live Database; and a lookup returns the decoded entry the map holds for
\* the key, or None and no failure when the key was never stored.
StoreOverwrites ==
    [][/\ \A p \in Procs :
            /\ Commits(p) =>
                  /\ db_dirty'
                  /\ DOMAIN db_cache' = DOMAIN db_cache \cup {KeyOf(p)}
                  /\ db_cache'[KeyOf(p)] =
                        DbVal(task[p].exe.discovered_inputs,
                              task[p].exe.discovered_outputs, task[p].v)
                  /\ \A k \in DOMAIN db_cache \ {KeyOf(p)} : db_cache'[k] = db_cache[k]
            /\ LooksUp(p) =>
                  /\ ret'[p].kind # "failure"
                  /\ KeyOf(p) \in DOMAIN db_cache =>
                        /\ cached'[p] = DbDecode(db_cache[KeyOf(p)])
                        /\ <<KeyOf(p), cached'[p]>> \in written
                  /\ KeyOf(p) \notin DOMAIN db_cache => cached'[p] = None
                  /\ StoredUnder(KeyOf(p)) = {} => cached'[p] = None
                  /\ StoredUnder(KeyOf(p)) # {} => cached'[p].some
       /\ (open /\ open' /\ db_cache' # db_cache) => \E p \in Procs : Commits(p)]_vars

\* A key was stored by the first call and again by the second, with
\* different records; the third call's lookup returned the second record.
StoreOverwritesWitness ==
    \E p \in Procs :
        /\ pc[p] = "lookedup"
        /\ prep[p].n = 3
        /\ Cardinality(StoredUnder(KeyOf(p))) = 2
        /\ \E w \in StoredUnder(KeyOf(p)) : w[2].res = ResultOf(1)
        /\ cached[p].some
        /\ cached[p].res = ResultOf(2)

\* The facts nested in the encoded Call v, the program first, are all fresh.
NestedFresh(v) == \A i \in 1..Len(v) : CallArgIsFresh(disk, v[i])

\* The content of the program of the encoded Call v is not the one the
\* Call was built with; the program is still there.
ProgramChanged(v) ==
    /\ exists(disk, v[1][2])
    /\ v[1][3] # digest_path(disk, v[1][2])

\* The facts of kind "call" that exec_work judges for caller p.
CallFactsOf(p) == {FactsOf(p)[i] : i \in {j \in 1..Len(FactsOf(p)) : FactsOf(p)[j][2] = "call"}}

\* C23 as stated: a command descriptor fact is fresh if and only if every
\* nested fact is fresh, the program path as well as every argument; so a
\* call whose record holds a command whose program has changed is no hit.
CommandFreshIffAllNested ==
    [][\A p \in Procs :
          Decided(p) =>
             /\ \A f \in CallFactsOf(p) : (Verdict(f) = "fresh") <=> NestedFresh(f[3])
             /\ (cached[p].some /\ \E f \in CallFactsOf(p) : ProgramChanged(f[3]))
                   => pc'[p] # "done"]_vars

\* exec_work holds a record with a command fact whose program has another
\* content than the one recorded in the fact, and its decision is a hit:
\* every fact is judged fresh, the program being looked at by none.
ProgramChangeStillHit ==
    \E p \in Procs :
        /\ pc[p] = "lookedup"
        /\ cached[p].some
        /\ DecisionOf(p) = "hit"
        /\ ENABLED ExecHit(p)
        /\ \E f \in CallFactsOf(p) :
              /\ ProgramChanged(f[3])
              /\ ~NestedFresh(f[3])
              /\ Verdict(f) = "fresh"

\* The argument tokens of the command facts exec_work judges for caller p.
ArgsOf(p) == UNION {{f[3][i] : i \in 2..Len(f[3])} : f \in CallFactsOf(p)}

\* The path is there and its content has the digest dg.
PathHasDigest(path, dg) ==
    disk[path].content # 0 /\ hash(disk[path].content) = dg

\* Every input path among the arguments judged for p is there with the
\* digest recorded for it.
InputsMatch(p) ==
    \A a \in ArgsOf(p) : a[1] = "InputPath" => PathHasDigest(a[2], a[3])

\* Every output path among the arguments judged for p is there.
OutputsExist(p) ==
    \A a \in ArgsOf(p) : a[1] = "OutputPath" => disk[a[2]].content # 0

\* C24: a content-hash-of-path fact is fresh if and only if the path still
\* exists and its content has the stored digest; the stored modification
\* time plays no part.  Each input path argument is judged so, and a call
\* whose record is found and whose output paths all exist is a hit exactly
\* when every input path has its recorded digest, whatever the times.
HashFactFreshness ==
    [][\A p \in Procs :
          Decided(p) =>
             /\ \A a \in ArgsOf(p) :
                   a[1] = "InputPath" =>
                      (CallArgIsFresh(disk, a) <=> PathHasDigest(a[2], a[3]))
             /\ (cached[p].some /\ OutputsExist(p)) =>
                   /\ InputsMatch(p) => pc'[p] = "done"
                   /\ ~InputsMatch(p) => pc'[p] = "waiting" /\ task'[p].st = "running"]_vars

\* exec_work holds a record with an input path that was touched since (the
\* same content, another modification time), and its decision is a hit.
HashFactFreshnessWitness ==
    \E p \in Procs :
        /\ pc[p] = "lookedup"
        /\ cached[p].some
        /\ DecisionOf(p) = "hit"
        /\ \E a \in ArgsOf(p) :
              /\ a[1] = "InputPath"
              /\ PathHasDigest(a[2], a[3])
              /\ a[4] # disk[a[2]].modified

\* C25: an output-path fact is fresh if and only if the path exists.  Each
\* output path argument is judged so, and a call whose record is found and
\* whose input paths all have their digests is a hit exactly when every
\* output path exists, whatever its content.
OutputFactFreshness ==
    [][\A p \in Procs :
          Decided(p) =>
             /\ \A a \in ArgsOf(p) :
                   a[1] = "OutputPath" =>
                      (CallArgIsFresh(disk, a) <=> exists(disk, a[2]))
             /\ (cached[p].some /\ InputsMatch(p)) =>
                   /\ OutputsExist(p) => pc'[p] = "done"
                   /\ ~OutputsExist(p) => pc'[p] = "waiting" /\ task'[p].st = "running"]_vars

\* exec_work holds a record with an output path whose file has been given
\* another content and is still there, and its decision is a hit.
OutputFactFreshnessWitness ==
    \E p \in Procs :
        /\ pc[p] = "lookedup"
        /\ cached[p].some
        /\ DecisionOf(p) = "hit"
        /\ \E a \in ArgsOf(p) :
              /\ a[1] = "OutputPath"
              /\ exists(disk, a[2])
              /\ disk[a[2]].content # 1

\* Every fact judged for caller p that is not of kind "value" is fresh.
OthersFresh(p) ==
    \A i \in 1..Len(FactsOf(p)) :
        FactsOf(p)[i][2] # "value" => Verdict(FactsOf(p)[i]) = "fresh"

\* Caller p's call declares a fact of the opaque kind "value".
DeclaresValue(p) ==
    \E i \in 1..Len(FactsOf(p)) : FactsOf(p)[i][2] = "value"

\* C26 as stated: a fact of kind "value" is always fresh, so a call whose
\* record exists and whose facts of other kinds are all fresh is a hit
\* whatever "value" facts it declares.
ValueAlwaysFresh ==
    [][\A p \in Procs :
          (Decided(p) /\ cached[p].some /\ OthersFresh(p)) =>
              /\ \A i \in 1..Len(FactsOf(p)) :
                    FactsOf(p)[i][2] = "value" => Verdict(FactsOf(p)[i]) = "fresh"
              /\ pc'[p] = "done"
              /\ ret'[p] = [kind |-> "value", v |-> cached[p].res]]_vars

\* A call that declares only the program-name list under kind "value" found
\* its record, with no discovered facts, and failed in the freshness check.
ValueFactFails ==
    \E p \in Procs :
        /\ pc[p] = "failed"
        /\ ret[p] = [kind |-> "failure", v |-> "freshness"]
        /\ cached[p].some
        /\ DeclaresValue(p)
        /\ \A i \in 1..Len(FactsOf(p)) : FactsOf(p)[i][2] = "value"
        /\ task[p].st = "none"

\* The declaration of an input fails in this step of caller p.
DeclareFails(p) == pc[p] = "prep" /\ pc'[p] = "failed"

\* The digests of the contents a file can have.
Digests == {hash(c) : c \in 1..MaxContent}

\* The input path arguments, the program included, of the command facts
\* declared on caller p's Prep.
DeclaredInputPaths(p) ==
    LET f == Flatten(prep[p].declared_inputs)
    IN  UNION {{f[i][3][j] : j \in {k \in 1..Len(f[i][3]) : f[i][3][k][1] = "InputPath"}}
                 : i \in {k \in 1..Len(f) : f[k][2] = "call"}}

\* C27: a declared input whose path cannot be read and hashed fails when it
\* is declared, before the exec protocol starts.  The failing declaration
\* ends the invocation with a failure and changes neither Prep nor
\* database; the invocation has made no lookup and run no body, and the
\* only thing it does afterwards is go away; and an input path enters a
\* Prep only hashed from a file that is there when it is declared.
DeclareFailsEarly ==
    /\ [][\A p \in Procs :
            /\ DeclareFails(p) =>
                  /\ ret'[p] = [kind |-> "failure", v |-> "declare"]
                  /\ cached[p] = None /\ task[p].st = "none"
                  /\ UNCHANGED <<prep, cached, task, db_cache, db_dirty, store,
                                 committed, written>>
            /\ (pc[p] = "failed" /\ ret[p].v = "declare") =>
                  /\ pc'[p] \in {"failed", "idle"}
                  /\ ~Commits(p)
                  /\ ~LooksUp(p)
                  /\ pc'[p] = "failed" => UNCHANGED <<cached, task>>
            /\ (pc[p] = "prep" /\ prep'[p] # prep[p] /\ pc'[p] = "prep") =>
                  \A a \in DeclaredInputPaths(p)' \ DeclaredInputPaths(p) :
                      exists(disk, a[2])]_vars
    /\ [](\A p \in Procs :
            /\ \A a \in DeclaredInputPaths(p) : a[3] \in Digests
            /\ (pc[p] = "failed" /\ ret[p].v = "declare") =>
                  /\ cached[p] = None
                  /\ task[p].st = "none")

\* The source was deleted, a command naming it as input was declared, and
\* the invocation failed there: nothing was looked up, run or committed.
DeclareFailsEarlyWitness ==
    \E p \in Procs :
        /\ pc[p] = "failed"
        /\ ret[p] = [kind |-> "failure", v |-> "declare"]
        /\ cached[p] = None
        /\ task[p].st = "none"
        /\ committed = {}
        /\ db_cache = EmptyDb
        /\ envSteps = 1
        /\ ~exists(disk, "a.c")

\* The keys of the members of the store file.
StoreKeys == {m[1] : m \in store.json}

\* C28: the database holds exactly one record for each distinct (function
\* name, declared inputs) pair for which a miss has completed (in this
\* Context or, through the store, in an earlier one), and none for any
\* other pair.  The keys of a live Database are the keys of the pairs
\* committed, each with one record that some commit stored under it; the
\* store file has one member per key, all of committed pairs.
OneRecordPerPair ==
    /\ [](open =>
            /\ DOMAIN db_cache = CommittedKeys
            /\ \A k \in DOMAIN db_cache : <<k, DbDecode(db_cache[k])>> \in written)
    /\ [](/\ StoreKeys \subseteq CommittedKeys
          /\ Cardinality(store.json) = Cardinality(StoreKeys)
          /\ (~db_dirty /\ open) => StoreKeys = CommittedKeys)
    /\ [](\A p \in Procs :
            (pc[p] \in {"prep", "lookedup", "waiting", "failed"}
               /\ PairOf(p) \notin committed) => KeyOf(p) \notin DOMAIN db_cache)

\* Two pairs have a record each, from two completed misses; a third call,
\* for a third pair, had its body fail, and there is no record for it.
OneRecordPerPairWitness ==
    \E p \in Procs :
        /\ open
        /\ Cardinality(committed) = 2
        /\ Cardinality(DOMAIN db_cache) = 2
        /\ pc[p] = "failed"
        /\ ret[p] = [kind |-> "failure", v |-> "body"]
        /\ PairOf(p) \notin committed
        /\ KeyOf(p) \notin DOMAIN db_cache

\* Caller p has a Prep.
HasPrep(p) == pc[p] # "idle"

\* C29: records are isolated by key.  Two calls have the same key exactly
\* when they have the same function name and the same declared (kind, name,
\* value) triples; a commit changes no record but the one under its own
\* key; and a lookup is given only a record stored under its own key.  For
\* calls made as the builders make them (function "Call", one declared fact
\* of kind "call" and empty name) the keys are equal exactly when the
\* serialized commands are.
KeyIsolation ==
    /\ [](\A p, q \in Procs :
            (HasPrep(p) /\ HasPrep(q)) =>
               /\ (KeyOf(p) = KeyOf(q)) <=>
                     /\ prep[p].fn_name = prep[q].fn_name
                     /\ EntriesOf(prep[p].declared_inputs)
                          = EntriesOf(prep[q].declared_inputs)
               /\ (/\ prep[p].fn_name = "Call" /\ prep[q].fn_name = "Call"
                   /\ Len(prep[p].said) = 1 /\ Len(prep[q].said) = 1) =>
                     ((KeyOf(p) = KeyOf(q)) <=> (prep[p].said[1][3] = prep[q].said[1][3])))
    /\ [][\A p \in Procs :
            /\ Commits(p) =>
                  \A k \in DOMAIN db_cache \ {KeyOf(p)} :
                      k \in DOMAIN db_cache' /\ db_cache'[k] = db_cache[k]
            /\ LooksUp(p) =>
                  /\ cached'[p].some => <<KeyOf(p), cached'[p]>> \in written
                  /\ StoredUnder(KeyOf(p)) = {} => ~cached'[p].some]_vars

\* Two calls with the same declared inputs and different function names
\* both missed and committed: the map holds the record of each under its
\* own key.
KeyIsolationWitness ==
    /\ \A p \in Procs : MissedAndCommitted(p)
    /\ prep[1].fn_name # prep[2].fn_name
    /\ prep[1].declared_inputs = prep[2].declared_inputs
    /\ prep[1].declared_inputs # WorkMapNew
    /\ KeyOf(1) # KeyOf(2)
    /\ \A p \in Procs : prepare(db_cache, prep[p].fn_name, prep[p].declared_inputs)
                           = WrittenBy(p)[2]

\* The facts on which exec_work calls is_fresh for caller p, in the order of
\* the calls: all_fresh over the declared inputs, and only if that is true
\* over the stored discovered inputs, and only if that is true over the
\* stored discovered outputs.
JudgedOf(p) ==
    LET a == all_fresh(freshness, disk, prep[p].declared_inputs)
        b == all_fresh(freshness, disk, cached[p].disc_in)
        e == all_fresh(freshness, disk, cached[p].disc_out)
    IN  SubSeq(Flatten(prep[p].declared_inputs), 1, a.n)
        \o (IF a.res # "fresh" THEN <<>>
            ELSE SubSeq(Flatten(cached[p].disc_in), 1, b.n)
                 \o (IF b.res # "fresh" THEN <<>>
                     ELSE SubSeq(Flatten(cached[p].disc_out), 1, e.n)))

\* The facts of one map come by name, and under one name by kind.
ByNameThenKind(map) ==
    LET facts == Flatten(map)
    IN  \A i \in 1..(Len(facts) - 1) :
            \/ StrLt(facts[i][1], facts[i + 1][1])
            \/ /\ facts[i][1] = facts[i + 1][1]
               /\ StrLt(facts[i][2], facts[i + 1][2])

\* The indices, in FactsOf(p), of the facts that are not fresh.
NotFreshIn(p) == {i \in 1..Len(FactsOf(p)) : Verdict(FactsOf(p)[i]) # "fresh"}

FirstNotFresh(p) == CHOOSE i \in NotFreshIn(p) : \A j \in NotFreshIn(p) : i <= j

\* C30: when exec_work decides on a record, the facts are judged in the
\* order declared inputs, stored discovered inputs, stored discovered
\* outputs, each group by name and then kind; the predicates called are
\* those of the facts up to and including the first one that is not fresh,
\* and that fact alone decides: with none the call is a hit, with a stale
\* one the body runs whatever the later facts are, and none of the later
\* facts is evaluated.
FreshnessOrder ==
    [][\A p \in Procs :
          (Decided(p) /\ cached[p].some)
          => /\ ByNameThenKind(prep[p].declared_inputs)
             /\ ByNameThenKind(cached[p].disc_in)
             /\ ByNameThenKind(cached[p].disc_out)
             /\ IF NotFreshIn(p) = {}
                THEN /\ JudgedOf(p) = FactsOf(p)
                     /\ pc'[p] = "done"
                ELSE /\ JudgedOf(p) = SubSeq(FactsOf(p), 1, FirstNotFresh(p))
                     /\ Verdict(FactsOf(p)[FirstNotFresh(p)]) = "stale"
                            => pc'[p] = "waiting" /\ task'[p].st = "running"
                     /\ Verdict(FactsOf(p)[FirstNotFresh(p)]) = "fail"
                            => pc'[p] = "failed"]_vars

\* A lookup whose declared input is fresh and whose stored discovered
\* outputs hold two facts under one name: the first, of kind "call", is
\* stale, the second, of kind "path", has no freshness function; the
\* decision is a miss and the second is not judged.
FreshnessOrderWitness ==
    \E p \in Procs :
        /\ pc[p] = "lookedup"
        /\ cached[p].some
        /\ Len(Flatten(prep[p].declared_inputs)) = 1
        /\ Len(Flatten(cached[p].disc_out)) = 2
        /\ FirstNotFresh(p) = 2
        /\ NotFreshIn(p) = {2, 3}
        /\ FactsOf(p)[2][1] = FactsOf(p)[3][1]
        /\ Verdict(FactsOf(p)[2]) = "stale"
        /\ Verdict(FactsOf(p)[3]) = "fail"
        /\ Len(JudgedOf(p)) = 2
        /\ DecisionOf(p) = "miss"
        /\ ENABLED ExecMiss(p)

\* The spawn of caller p's body happens in this step.
Misses(p) == pc[p] = "lookedup" /\ pc'[p] = "waiting"

\* The Exec of caller p's body gains one fact in this step, by one
\* discover_input or discover_output.
Discovers(p) ==
    \E x \in Discoveries :
        /\ DiscoveryOk(disk, x)
        /\ task'[p].exe = discover(task[p].exe, x, DiscoveryValue(disk, x))

\* C31: each miss starts its body with an Exec whose discovered inputs and
\* outputs are empty; while the body runs the Exec changes only by the
\* body's own discover_input / discover_output calls; and the commit stores
\* under the key exactly that Exec's two maps with the body's value, even
\* when the lookup had found a record under the key with other facts.
FreshExecPerMiss ==
    [][\A p \in Procs :
          /\ Misses(p) => task'[p].exe = NoExec
          /\ (pc[p] = "waiting" /\ task'[p].exe # task[p].exe) => Discovers(p)
          /\ Commits(p)
                => /\ KeyOf(p) \in DOMAIN db_cache'
                   /\ DbDecode(db_cache'[KeyOf(p)])
                         = Some(task[p].exe.discovered_inputs,
                                task[p].exe.discovered_outputs, task[p].v)]_vars

\* A call found a record with a discovered input, missed, ran a body that
\* recorded a discovered output and no input, and committed: the record
\* now under the key has that output and no discovered input.
FreshExecPerMissWitness ==
    \E p \in Procs :
        /\ pc[p] = "committed"
        /\ cached[p].some
        /\ cached[p].disc_in # WorkMapNew
        /\ task[p].exe.discovered_inputs = WorkMapNew
        /\ task[p].exe.discovered_outputs # WorkMapNew
        /\ DbDecode(db_cache[KeyOf(p)]).disc_in = WorkMapNew
        /\ DbDecode(db_cache[KeyOf(p)]).disc_out = task[p].exe.discovered_outputs

BodyStarts(p) == task[p].st # "running" /\ task'[p].st = "running"

\* Caller p's call, which had spawned a body, ends in this step.
MissCallEnds(p) == pc[p] \in {"done", "failed"} /\ pc'[p] = "idle" /\ task[p].st # "none"

\* What every call keeps to, whether its body returns or fails: a hit
\* spawns nothing, a body starts only in the step that decides a miss and
\* never twice in a call, the commit follows the receipt of the body's
\* message, writes one record, and nothing else writes the database.
AtMostOnce ==
    \A p \in Procs :
        /\ (Decided(p) /\ cached[p].some /\ AllJudgedFresh(p))
              => pc'[p] = "done" /\ task'[p] = NoTask
        /\ (pc[p] = "done" /\ cached[p].some /\ task[p].st = "none")
              => task'[p].st = "none"
        /\ BodyStarts(p) => Misses(p) /\ task[p].st = "none"
        /\ Misses(p) => BodyStarts(p)
        /\ task[p].st \in {"sent", "failed"} => task'[p].st \in {task[p].st, "none"}
        /\ Commits(p)
              => /\ task[p].st = "sent"
                 /\ written' = written \cup {WrittenBy(p)}
                 /\ pc'[p] = "committed"
        /\ pc[p] = "committed" => pc'[p] \in {"committed", "done"}
        /\ (pc'[p] = "done" /\ pc[p] # "done")
              => \/ Decided(p) /\ task[p].st = "none"
                 \/ pc[p] = "committed" /\ task[p].st = "sent"

\* C33 as stated: every call that missed has, when it ends, received one
\* message from its body and made one commit.
OneBodyOneCommit ==
    [][/\ AtMostOnce
       /\ (db_cache' # db_cache) => \E p \in Procs : Commits(p)
       /\ \A p \in Procs :
             MissCallEnds(p)
                => /\ task[p].st = "sent"
                   /\ pc[p] = "done"
                   /\ WrittenBy(p) \in written]_vars

\* C33 (amended): the body is invoked at most once per call, not at all on
\* a hit and once on a miss, which spawns one unit.  When the body returns,
\* the call receives its one message and commits once; when the body
\* fails, the call receives no message, commits nothing and fails.
OneBodyAtMostOneCommit ==
    [][/\ AtMostOnce
       /\ (db_cache' # db_cache) => \E p \in Procs : Commits(p)
       /\ \A p \in Procs :
             MissCallEnds(p)
                => \/ /\ task[p].st = "sent"
                      /\ pc[p] = "done"
                      /\ WrittenBy(p) \in written
                   \/ /\ task[p].st = "failed"
                      /\ pc[p] = "failed"
                      /\ ret[p] = [kind |-> "failure", v |-> "body"]
                      /\ lastCommit = NoCommit]_vars

\* A miss whose body failed is about to end: one unit was spawned, no
\* message came, and nothing was committed in the whole run.
OneBodyAtMostOneCommitWitness ==
    \E p \in Procs :
        /\ pc[p] = "failed"
        /\ task[p].st = "failed"
        /\ ret[p] = [kind |-> "failure", v |-> "body"]
        /\ written = {}
        /\ db_cache = EmptyDb

\* The first declared fact of caller p's Prep is of a kind with no
\* freshness function.
DeclaredUnregistered(p) ==
    /\ prep[p].declared_inputs # WorkMapNew
    /\ Flatten(prep[p].declared_inputs)[1][2] \notin DOMAIN freshness

\* C34: a call that finds no record evaluates no freshness predicate: it
\* goes to the body whatever the kinds of its declared inputs, and its
\* commit stores the record; a call fails for a missing freshness function
\* only when it did find a record, and a call that finds a record whose
\* first declared fact is of an unregistered kind does fail.
NoRecordNoFreshness ==
    [][\A p \in Procs :
          /\ (Decided(p) /\ ~cached[p].some)
                => pc'[p] = "waiting" /\ task'[p].st = "running" /\ ret'[p] = NoRet
          /\ (Decided(p) /\ pc'[p] = "failed") => cached[p].some
          /\ (Commits(p) /\ DeclaredUnregistered(p))
                => /\ KeyOf(p) \in DOMAIN db_cache'
                   /\ DbDecode(db_cache'[KeyOf(p)]).res = task[p].v
          /\ (Decided(p) /\ cached[p].some /\ DeclaredUnregistered(p))
                => /\ pc'[p] = "failed"
                   /\ ret'[p] = [kind |-> "failure", v |-> "freshness"]]_vars

\* A first call with a declared input of an unregistered kind found no
\* record, ran its body and committed, and returned; the next call with
\* the same declaration found that record and failed.
NoRecordNoFreshnessWitness ==
    \E p \in Procs :
        /\ pc[p] = "failed"
        /\ ret[p] = [kind |-> "failure", v |-> "freshness"]
        /\ DeclaredUnregistered(p)
        /\ cached[p].some
        /\ prep[p].n = 2
        /\ committed = {PairOf(p)}
        /\ KeyOf(p) \in DOMAIN db_cache

EarlierValueOf(k, p) ==
    LET a == Flatten(k[2])
        b == Flatten(prep[p].declared_inputs)
    IN  /\ k[1] = prep[p].fn_name
        /\ Len(a) = 1 /\ Len(b) = 1
        /\ a[1][1] = b[1][1] /\ a[1][2] = b[1][2]
        /\ Len(a[1][3]) = Len(b[1][3])
        /\ \A i \in 1..Len(a[1][3]) :
              a[1][3][i][1] = b[1][3][i][1] /\ a[1][3][i][2] = b[1][3][i][2]
        /\ \E i \in 1..Len(a[1][3]) : a[1][3][i][3] # b[1][3][i][3]

\* C36: no step takes a key out of a live Database or out of the store
\* file; teardown writes every key of a dirty Database to the store and a
\* new Database starts with the keys of the store; so a lookup for a key
\* that was ever committed finds a record, and when all its facts are fresh
\* the call is a hit returning the stored result.
KeysOnlyGrow ==
    /\ [][/\ (open /\ open') => DOMAIN db_cache \subseteq DOMAIN db_cache'
          /\ StoreKeys \subseteq StoreKeys'
          /\ TearsDown => DOMAIN db_cache \subseteq StoreKeys'
          /\ Opens => DOMAIN db_cache' = StoreKeys
          /\ \A p \in Procs :
                /\ (LooksUp(p) /\ KeyOf(p) \in CommittedKeys) => cached'[p].some
                /\ (Decided(p) /\ cached[p].some /\ AllJudgedFresh(p))
                      => /\ pc'[p] = "done"
                         /\ ret'[p] = [kind |-> "value", v |-> cached[p].res]]_vars
    /\ [](open => CommittedKeys \subseteq DOMAIN db_cache)

\* The source was edited and edited back; the third call, in a Database
\* loaded from the store, is a hit on the record the first call committed,
\* and the record of the other content is in the database and in the store
\* as well.
KeysOnlyGrowWitness ==
    \E p \in Procs :
        /\ pc[p] = "done"
        /\ cached[p].some
        /\ task[p].st = "none"
        /\ prep[p].n = 3
        /\ ret[p] = [kind |-> "value", v |-> ResultOf(1)]
        /\ store.present
        /\ ~db_dirty
        /\ StoreKeys = DOMAIN db_cache
        /\ KeyOf(p) \in DOMAIN db_cache
        /\ \E k \in DOMAIN db_cache : EarlierValueOf(k, p)

\* C37: the lookup hands the caller a copy of the record and gives the read
\* access up in the same step; the copy is not renewed while the caller has
\* not decided, whatever others commit; the decision is taken with no
\* access held and on the copy alone: when all facts of the copy are fresh
\* the call returns the copy's result, also when the database by then
\* holds another record under the key.
SnapshotDecision ==
    [][\A p \in Procs :
          /\ LookupEnds(p)
                => /\ cached'[p] = prepare(db_cache, prep[p].fn_name,
                                           prep[p].declared_inputs)
                   /\ p \notin lock'.readers
          /\ (pc[p] = "lookedup" /\ pc'[p] = "lookedup") => cached'[p] = cached[p]
          /\ Decided(p)
                => /\ p \notin lock.readers
                   /\ lock.writer # p
                   /\ (cached[p].some /\ AllJudgedFresh(p))
                         => /\ pc'[p] = "done"
                            /\ ret'[p] = [kind |-> "value", v |-> cached[p].res]
                            /\ UNCHANGED db_cache]_vars

\* A caller has looked up a record and is about to return its result as a
\* hit, while another call has since committed a record with another
\* result under the same key: the record looked up is no longer there.
SnapshotDecisionWitness ==
    \E p \in Procs :
        /\ pc[p] = "lookedup"
        /\ cached[p].some
        /\ DecisionOf(p) = "hit"
        /\ ENABLED ExecHit(p)
        /\ KeyOf(p) \in DOMAIN db_cache
        /\ DbDecode(db_cache[KeyOf(p)]).res # cached[p].res
        /\ \A k \in DOMAIN db_cache : DbDecode(db_cache[k]) # cached[p]

\* The call of caller p fails in this step because its body failed.
BodyFailureArrives(p) == pc[p] = "waiting" /\ pc'[p] = "failed"

\* C38: the step in which a body's failure reaches the caller leaves every
\* record and the dirty flag as they were; between then and the teardown a
\* record changes only under the key of a call that commits; and the
\* teardown of a dirty Database writes every record it holds to the store.
FailureKeepsRecords ==
    [][/\ \A p \in Procs :
             BodyFailureArrives(p)
                => /\ db_cache' = db_cache
                   /\ db_dirty' = db_dirty
                   /\ store' = store
                   /\ written' = written
       /\ (open /\ open')
             => \A k \in DOMAIN db_cache :
                   /\ k \in DOMAIN db_cache'
                   /\ db_cache'[k] # db_cache[k]
                         => \E p \in Procs : Commits(p) /\ KeyOf(p) = k
       /\ (TearsDown /\ db_dirty)
             => /\ store'.present
                /\ store'.form = "json"
                /\ store'.json = {<<k, db_cache[k]>> : k \in DOMAIN db_cache}]_vars

\* In the first Database of a run a call committed a record and a later
\* call, for another key, had its body fail and has ended: the record is
\* there, the Database is dirty, and the teardown that saves it is next.
FailureKeepsRecordsWitness ==
    /\ open
    /\ ~store.present
    /\ db_dirty
    /\ \A p \in Procs : pc[p] = "idle"
    /\ lastFail # NoCommit
    /\ committed # {}
    /\ DbKey(lastFail.fn_name, lastFail.declared_inputs) \notin DOMAIN db_cache
    /\ DOMAIN db_cache = CommittedKeys
    /\ ENABLED Teardown
====
